---- MODULE Spec2Model ----
(***************************************************************************)
(* Model of one plugin instance of the dropseed engine: the main-thread    *)
(* PluginInstanceHost, its audio-thread siblings                           *)
(* (PluginInstanceHostAudioThread), the published schedule, the process    *)
(* thread running blocks of that schedule and the deferred-drop collector. *)
(***************************************************************************)
EXTENDS Integers, Sequences, FiniteSets, TLC

\* Number of audio-thread sibling objects that may exist at the same time.
MaxSiblings == 2
\* Largest parameter count a plugin reports (num_params).
MaxParams == 1

\* Largest parameter id, largest parameter value, and the most set_value
\* calls recorded between two blocks.
MaxParamId == 2
MaxValue == 2
MaxSets == 3

SibIds == 1..MaxSiblings

ParamIds == 1..MaxParamId

\* f64 parameter values
Values == 1..MaxValue

\* enum PluginState
PluginState ==
    {"Inactive", "InactiveWithError", "Active", "WaitingToDrop",
     "DroppedAndReadyToDeactivate"}

\* enum ProcessStatus (the value returned by the plugin's process)
ProcessStatus == {"Continue", "ContinueIfNotQuiet", "Tail", "Sleep", "Error"}

\* enum ProcessingState; Started(status) is written "Started_<status>"
Started(status) ==
    CASE status = "Continue" -> "Started_Continue"
      [] status = "ContinueIfNotQuiet" -> "Started_ContinueIfNotQuiet"
      [] status = "Tail" -> "Started_Tail"

IsStarted(ps) ==
    ps \in {"Started_Continue", "Started_ContinueIfNotQuiet", "Started_Tail"}

ProcessingState ==
    {"WaitingForStart", "Started_Continue", "Started_ContinueIfNotQuiet",
     "Started_Tail", "Stopped", "Errored"}

\* The host-request flags that on_idle acts on.  CALLBACK, GUI_CLOSED and
\* GUI_DESTROYED only invoke plugin callbacks and touch no host field.
HostRequestFlags == {"RESTART", "PROCESS"}

\* Where a plugin may fail during activate ("none": every call succeeds).
FailModes ==
    {"none", "audio_ports", "note_ports", "param_info", "param_value", "plugin"}

ActivateErrors ==
    {"NotLoaded", "AlreadyActive", "PluginFailedToGetAudioPortsExt",
     "PluginFailedToGetNotePortsExt", "PluginFailedToGetParamInfo",
     "PluginFailedToGetParamValue", "PluginSpecific"}

\* The errors activate returns after a call of the plugin failed.
PluginSideErrors ==
    {"PluginFailedToGetAudioPortsExt", "PluginFailedToGetNotePortsExt",
     "PluginFailedToGetParamInfo", "PluginFailedToGetParamValue",
     "PluginSpecific"}

VARIABLES
    main_thread,       \* PluginInstanceHost.main_thread is Some
    state,             \* SharedPluginState.state
    start_processing,  \* SharedPluginState.start_processing
    audio_thread,      \* PluginInstanceHost.audio_thread: sibling id, 0 = None
    param_queues,      \* PluginInstanceHost.param_queues is Some
    remove_requested,  \* PluginInstanceHost.remove_requested
    restarting,        \* PluginInstanceHost.restarting
    host_request,      \* request flags set by the plugin, not yet fetched
    num_params,        \* what the plugin's num_params() returns
    sibs,              \* the audio-thread siblings, by id
    schedule,          \* the task of this plugin in the published schedule
    pblock,            \* the block the process thread is executing
    ev,                \* what the last step did (history variable)
    restart_seen,      \* on_idle fetched RESTART since the last activation
    pq,                \* the parameter queues and event buffers of the plugin
    gs,                \* gesture flags of the sibling and the Audio->UI queue
    cb,                \* the audio callback's object, rings and device buffer
    eng,               \* the engine's main thread and its process threads
    px                 \* a buffer or queue operation: its input and result

vars ==
    <<main_thread, state, start_processing, audio_thread, param_queues,
      remove_requested, restarting, host_request, num_params, sibs, schedule,
      pblock, ev, restart_seen, pq, gs, cb, eng, px>>

\* The state outside the plugin host's state machine.
extVars == <<pq, gs, cb, eng, px>>

hostVars ==
    <<main_thread, state, start_processing, audio_thread, param_queues,
      remove_requested, restarting, host_request, num_params>>

----------------------------------------------------------------------------
\* Sibling objects

DeadSib ==
    [alive |-> FALSE, processing_state |-> "WaitingForStart",
     plugin_processing |-> FALSE]

\* PluginInstanceHostAudioThread as built by activate
NewSib ==
    [alive |-> TRUE, processing_state |-> "WaitingForStart",
     plugin_processing |-> FALSE]

FreeSlots == {s \in SibIds : ~sibs[s].alive}

NextSlot == CHOOSE s \in FreeSlots : \A t \in FreeSlots : s <= t

\* The event record of a step; every action fills it completely:
\*   op      the operation that ran
\*   result  what it returned
\*   writes  the PluginState before it, then every value it stored
\*   deact   whether it called the plugin's deactivate, and if so whether a
\*           sibling was alive in a schedule at that moment
\*   calls   the calls it made to the plugin's audio-thread facet
\*   viol    the first of those calls the facet's contract forbids
\*   out     what a block left in the plugin's audio outputs
\*   asked   the methods of the plugin's main-thread facet that activate
\*           called, in order
\*   stored  the fields of the host that activate assigned
Event(op, result, writes, deact, calls, viol, out) ==
    [op |-> op, result |-> result, writes |-> writes, deact |-> deact,
     calls |-> calls, viol |-> viol, out |-> out, asked |-> <<>>,
     stored |-> {}]

----------------------------------------------------------------------------
\* A variant of can_activate without the test for an active plugin.
can_activate_when_loaded(st) ==
    IF ~main_thread THEN "NotLoaded" ELSE "Ok"

\* PluginInstanceHost::can_activate
can_activate(st) ==
    IF ~main_thread THEN "NotLoaded"
    ELSE IF st = "Active" THEN "AlreadyActive"
    ELSE "Ok"

\* A variant of activate_failed that returns the error without marking the
\* plugin InactiveWithError.
activate_failed_unmarked(h, err) ==
    [h |-> h, result |-> err, writes |-> <<>>, created |-> FALSE]

\* The error arms of activate: set InactiveWithError and return the error.
activate_failed(h, err) ==
    [h |-> [h EXCEPT !.state = "InactiveWithError"], result |-> err,
     writes |-> <<"InactiveWithError">>, created |-> FALSE]

\* PluginInstanceHost::activate, on the host fields h, with the plugin failing
\* at `fail`.  Returns the new host fields, the result, the PluginState writes
\* made and whether a sibling was built.
activate(h, fail) ==
    LET failed(err, asked, stored) ==
            LET r == activate_failed(h, err)
            IN  [h |-> r.h, result |-> r.result, writes |-> r.writes,
                 created |-> r.created, asked |-> asked,
                 stored |-> stored \cup {"state"}]
        ports == <<"audio_ports_ext", "note_ports_ext">>
        audio_cached == {"num_audio_in_channels", "num_audio_out_channels",
                         "save_state.backup_audio_ports"}
        ports_cached == audio_cached \cup {"save_state.backup_note_ports",
                                           "audio_ports", "note_ports"}
        params == [i \in 1..(2 * num_params) |->
                      IF i % 2 = 1 THEN "param_info" ELSE "param_value"]
        counted == ports \o <<"num_params">>
    IN  IF can_activate(h.state) # "Ok"
        THEN [h |-> h, result |-> can_activate(h.state), writes |-> <<>>,
              created |-> FALSE, asked |-> <<>>, stored |-> {}]
        ELSE IF fail = "audio_ports"
        THEN failed("PluginFailedToGetAudioPortsExt", <<"audio_ports_ext">>,
                    {"audio_ports"})
        ELSE IF fail = "note_ports"
        THEN failed("PluginFailedToGetNotePortsExt", ports,
                    audio_cached \cup {"note_ports"})
        ELSE IF fail = "param_info" /\ num_params > 0
        THEN failed("PluginFailedToGetParamInfo",
                    counted \o <<"param_info">>, ports_cached)
        ELSE IF fail = "param_value" /\ num_params > 0
        THEN failed("PluginFailedToGetParamValue",
                    counted \o <<"param_info", "param_value">>, ports_cached)
        ELSE IF fail = "plugin"
        THEN failed("PluginSpecific", counted \o params \o <<"activate">>,
                    ports_cached)
        ELSE [h |-> [h EXCEPT !.state = "Active",
                              !.param_queues = (num_params > 0),
                              !.audio_thread = NextSlot],
              result |-> "Ok", writes |-> <<"Active">>, created |-> TRUE,
              asked |-> counted \o params
                          \o <<"activate", "has_automation_out_port">>,
              stored |-> ports_cached
                          \cup {"state", "param_queues", "audio_thread"}]

\* The host fields activate reads and writes.
HostFields ==
    [state |-> state, param_queues |-> param_queues,
     audio_thread |-> audio_thread]

\* The failure points the plugin can take: it can only succeed while a sibling
\* slot is free, and fails in the parameter loop only if it has parameters.
Fails ==
    {f \in FailModes :
        /\ (f = "none" => FreeSlots # {})
        /\ (f \in {"param_info", "param_value"} => num_params > 0)}

----------------------------------------------------------------------------
\* PluginInstanceHost::schedule_deactivate on the host fields h
schedule_deactivate(h) ==
    IF h.state # "Active"
    THEN [h |-> h, writes |-> <<>>]
    ELSE [h |-> [h EXCEPT !.audio_thread = 0, !.state = "WaitingToDrop"],
          writes |-> <<"WaitingToDrop">>]

\* on_idle's test that it is "safe to deactivate now"
ready_to_deactivate(local) == local = "DroppedAndReadyToDeactivate"

\* PluginInstanceHost::on_idle with a loaded plugin: flags are the fetched
\* request flags, fail is where the plugin fails if on_idle activates it.
on_idle(h, flags, fail) ==
    LET do_restart == "RESTART" \in flags /\ ~remove_requested
        new_restarting == restarting \/ do_restart
        to_waiting == do_restart /\ h.state # "DroppedAndReadyToDeactivate"
        local == IF to_waiting THEN "WaitingToDrop" ELSE h.state
        h1 == IF to_waiting THEN [h EXCEPT !.state = "WaitingToDrop"] ELSE h
        w1 == IF to_waiting THEN <<"WaitingToDrop">> ELSE <<>>
        base == [h |-> h1, restarting |-> new_restarting, writes |-> w1,
                 result |-> "Ok", deactivate |-> FALSE, created |-> FALSE,
                 start_processing |-> start_processing]
        act(hh) == activate(hh, fail)
        activated(r, b) ==
            [b EXCEPT !.h = r.h, !.writes = b.writes \o r.writes,
                      !.created = r.created,
                      !.result = IF r.result = "Ok" THEN "PluginActivated"
                                 ELSE "PluginFailedToActivate"]
    IN  IF ready_to_deactivate(local)
        THEN LET h2 == [h1 EXCEPT !.state = "Inactive", !.param_queues = FALSE]
                 b2 == [base EXCEPT !.h = h2, !.deactivate = TRUE,
                                    !.writes = w1 \o <<"Inactive">>]
             IN  IF ~remove_requested
                 THEN IF new_restarting \/ "PROCESS" \in flags
                      THEN activated(act(h2), b2)
                      ELSE [b2 EXCEPT !.result = "PluginDeactivated"]
                 ELSE [b2 EXCEPT !.result = "PluginReadyToRemove"]
        ELSE IF "PROCESS" \in flags /\ ~remove_requested /\ ~new_restarting
        THEN IF local = "Active"
             THEN [base EXCEPT !.start_processing = TRUE]
             ELSE IF local \in {"Inactive", "InactiveWithError"}
             THEN activated(act(h1), base)
             ELSE base
        ELSE base

----------------------------------------------------------------------------
\* Calls to the plugin's audio-thread facet.  plugin_processing is the
\* plugin's own processing state: set by a successful start_processing,
\* cleared by stop_processing.
RECURSIVE CallsEffect(_, _)
CallsEffect(pp, calls) ==
    IF calls = <<>> THEN [pp |-> pp, viol |-> "none"]
    ELSE LET c == Head(calls)
             v == CASE c = "stop_processing" /\ ~pp -> "stop_while_not_processing"
                    [] c \in {"start_processing_ok", "start_processing_err"} /\ pp
                         -> "start_while_processing"
                    [] c = "process" /\ ~pp -> "process_while_not_processing"
                    [] OTHER -> "none"
             pp1 == CASE c = "stop_processing" -> FALSE
                      [] c = "start_processing_ok" -> TRUE
                      [] OTHER -> pp
             rest == CallsEffect(pp1, Tail(calls))
         IN  [pp |-> rest.pp, viol |-> IF v # "none" THEN v ELSE rest.viol]

\* The end of PluginInstanceHostAudioThread::process: the plugin's process
\* returned status.
finish_process(ps, status) ==
    CASE status = "Sleep" ->
            [processing_state |-> "Stopped",
             calls |-> <<"process", "stop_processing">>, out |-> "processed"]
      [] status = "Error" ->
            [processing_state |-> "Errored", calls |-> <<"process">>,
             out |-> "cleared"]
      [] OTHER ->
            [processing_state |-> Started(status), calls |-> <<"process">>,
             out |-> "processed"]

\* PluginInstanceHostAudioThread::process up to the point where it either
\* returns or has started the plugin (resume = TRUE: it goes on to write
\* PluginState and to call the plugin's process).
process(ps, st, sp, note, silent, start_ok, status) ==
    LET ret(ps2, sp2, calls, out) ==
            [processing_state |-> ps2, start_processing |-> sp2,
             calls |-> calls, out |-> out, resume |-> FALSE]
        ps1 == IF sp /\ ~IsStarted(ps) THEN "WaitingForStart" ELSE ps
    IN  IF st = "WaitingToDrop"
        THEN ret(ps, sp,
                 IF IsStarted(ps) THEN <<"stop_processing">> ELSE <<>>,
                 "cleared")
        ELSE IF ps1 = "Errored"
        THEN ret(ps1, FALSE, <<>>, "cleared")
        ELSE IF ps1 = "Started_ContinueIfNotQuiet" /\ ~note /\ silent
        THEN ret("Stopped", FALSE, <<"stop_processing">>, "cleared")
        ELSE IF ps1 \in {"Stopped", "WaitingForStart"}
        THEN IF ps1 = "Stopped" /\ ~note
             THEN ret(ps1, FALSE, <<>>, "cleared")
             ELSE IF ~start_ok
             THEN ret("Errored", FALSE, <<"start_processing_err">>, "cleared")
             ELSE [processing_state |-> ps1, start_processing |-> FALSE,
                   calls |-> <<"start_processing_ok">>, out |-> "pending",
                   resume |-> TRUE]
        ELSE LET f == finish_process(ps1, status)
             IN  ret(f.processing_state, FALSE, f.calls, f.out)

\* impl Drop for PluginInstanceHostAudioThread: the calls it makes
drop_calls(ps) == IF IsStarted(ps) THEN <<"stop_processing">> ELSE <<>>

----------------------------------------------------------------------------
\* References to sibling objects

DeactivatedTask == [kind |-> "DeactivatedPlugin", sib |-> 0]

PluginTask(s) == [kind |-> "Plugin", sib |-> s]

\* The sibling is in a schedule: the published one, or the one the process
\* thread took for the block it is still executing (pblock).
InSchedule(s) ==
    \/ schedule.kind = "Plugin" /\ schedule.sib = s
    \/ pblock = s

\* A sibling is kept alive by the host's handle and by the schedules.
Referenced(s) == audio_thread = s \/ InSchedule(s)

\* The siblings the host holds no handle to, whatever the schedules hold.
Unheld == {s \in SibIds : sibs[s].alive /\ audio_thread # s}

\* The siblings whose last reference is gone: the collector's queue.
Unreferenced == {s \in SibIds : sibs[s].alive /\ ~Referenced(s)}

SiblingAliveInSchedule == \E s \in SibIds : sibs[s].alive /\ InSchedule(s)

----------------------------------------------------------------------------
\* Parameter values from the main thread to the audio thread

\* No entry for a key in a reducing queue.
NoValue == 0

\* ReducingFnvQueue: at most one entry per key, a later set replaces the
\* value; the consumer takes every entry at once.
EmptyQueue == [p \in ParamIds |-> NoValue]

ReducSet(q, k, v) == [q EXCEPT ![k] = v]

\* The events consume pushes for the entries of q, from key k on.
RECURSIVE EventsFrom(_, _, _)
EventsFrom(q, type, k) ==
    IF k > MaxParamId THEN <<>>
    ELSE (IF q[k] # NoValue
          THEN <<[type |-> type, param_id |-> k, value |-> q[k]]>>
          ELSE <<>>) \o EventsFrom(q, type, k + 1)

\* The plugin has parameter queues: activate builds them if num_params > 0.
HasQueues(x) == \E p \in ParamIds : x.params[p] # "absent"

\* A variant of set_value that does not look at the read-only flag.
set_value_any_flag(x, param_id, value) ==
    IF HasQueues(x) /\ x.params[param_id] # "absent"
    THEN [x EXCEPT !.value_q = ReducSet(x.value_q, param_id, value)]
    ELSE x

\* A variant of set_value that keeps the first value set for a parameter
\* until it is consumed.
set_value_keep_first(x, param_id, value) ==
    IF HasQueues(x) /\ x.params[param_id] = "writable"
       /\ x.value_q[param_id] = NoValue
    THEN [x EXCEPT !.value_q = ReducSet(x.value_q, param_id, value)]
    ELSE x

\* PluginParamsExt::set_value
set_value(x, param_id, value) ==
    IF HasQueues(x)
    THEN IF x.params[param_id] # "absent"
         THEN IF x.params[param_id] = "readonly"
              THEN x
              ELSE [x EXCEPT !.value_q = ReducSet(x.value_q, param_id, value)]
         ELSE x
    ELSE x

\* PluginParamsExt::set_mod_amount
set_mod_amount(x, param_id, amount) ==
    IF HasQueues(x)
    THEN IF x.params[param_id] # "absent"
         THEN [x EXCEPT !.mod_q = ReducSet(x.mod_q, param_id, amount)]
         ELSE x
    ELSE x

\* ParamQueuesAudioThread::consume_into_event_buffer, and the guard
\* param_queues.as_mut().map(..) of its call
consume_into_event_buffer(x) ==
    IF HasQueues(x)
    THEN [x EXCEPT !.in_events = @ \o EventsFrom(x.value_q, "ParamValue", 1)
                                   \o EventsFrom(x.mod_q, "ParamMod", 1),
                   !.value_q = EmptyQueue,
                   !.mod_q = EmptyQueue]
    ELSE x

\* process gets as far as filling in_events: it has not returned for
\* WaitingToDrop or for an Errored plugin.
reads_events(ps, st, sp) ==
    /\ st # "WaitingToDrop"
    /\ (IF sp /\ ~IsStarted(ps) THEN "WaitingForStart" ELSE ps) # "Errored"

\* The record of pq: params is PluginParamsExt.params (with IS_READONLY),
\* value_q and mod_q the two main-to-audio queues, in_events the sibling's
\* buffer; want holds, per writable parameter, the last value the UI passed
\* to set_value and nsets the number of such calls since the queues were
\* last consumed; a block leaves in judged what it consumed of them, in
\* delivered the in_events it handed to the plugin and in how the way it did.
NoCalls == [want |-> EmptyQueue, nsets |-> 0]

\* No call of the UI since the last block.
NoSet == [op |-> "none", param_id |-> 0]

PqOf(params) ==
    [params |-> params, value_q |-> EmptyQueue, mod_q |-> EmptyQueue,
     in_events |-> <<>>, calls |-> NoCalls, judged |-> NoCalls,
     delivered |-> <<>>, how |-> "none", last |-> NoSet]

\* A plugin without parameters.
PqIdle == PqOf([p \in ParamIds |-> "absent"])

-----------------------------------------------------------------------------
\* Output events of the plugin and the Audio->UI queue.

\* A bound on the output events the plugin emits in one block.
MaxOut == 2

\* The parameters of the plugin whose gestures are followed.
GestureParamIds == 1..MaxParams

\* The parameter output events of a block: gesture begin, gesture end and
\* parameter value (the value itself plays no part in the gesture handling).
OutEvents ==
    [type : {"ParamGestureBegin", "ParamGestureEnd", "ParamValue"},
     param_id : GestureParamIds]

RECURSIVE SeqsUpTo(_, _)
SeqsUpTo(S, n) ==
    IF n = 0 THEN {<<>>}
    ELSE LET shorter == SeqsUpTo(S, n - 1)
         IN  shorter \cup {Append(q, e) : q \in shorter, e \in S}

\* AudioToMainParamValue: value is whether a value is carried, gesture is
\* "none", "begin" or "end". A parameter without pending entry is NoEntry.
NoEntry == [pending |-> FALSE, value |-> FALSE, gesture |-> "none"]

AudioToMainParamValue(value, gesture) ==
    [pending |-> TRUE, value |-> value, gesture |-> gesture]

\* ReducFnvValue::update of AudioToMainParamValue.
update(self, new_value) ==
    [pending |-> TRUE,
     value |-> IF new_value.value THEN new_value.value ELSE self.value,
     gesture |-> IF new_value.gesture # "none" THEN new_value.gesture
                 ELSE self.gesture]

\* queue.set_or_update: a pending entry of the key is updated, otherwise the
\* value is set.
set_or_update(queue, param_id, value) ==
    [queue EXCEPT ![param_id] = IF @.pending THEN update(@, value) ELSE value]

\* The gesture-begin arm of the output-event loop without the test of the
\* flag.
gesture_begin_unchecked(x, param_id) ==
    [x EXCEPT !.is_adjusting[param_id] = TRUE,
              !.to_main_q = set_or_update(@, param_id,
                                AudioToMainParamValue(FALSE, "begin")),
              !.pushed = "begin"]

\* The gesture-begin arm of the output-event loop: a begin for a parameter
\* already adjusting is skipped.
gesture_begin(x, param_id) ==
    IF x.is_adjusting[param_id] THEN [x EXCEPT !.pushed = "none"]
    ELSE [x EXCEPT !.is_adjusting[param_id] = TRUE,
                   !.to_main_q = set_or_update(@, param_id,
                                     AudioToMainParamValue(FALSE, "begin")),
                   !.pushed = "begin"]

\* The gesture-end arm: an end for a parameter not adjusting is skipped.
gesture_end(x, param_id) ==
    IF ~x.is_adjusting[param_id] THEN [x EXCEPT !.pushed = "none"]
    ELSE [x EXCEPT !.is_adjusting[param_id] = FALSE,
                   !.to_main_q = set_or_update(@, param_id,
                                     AudioToMainParamValue(FALSE, "end")),
                   !.pushed = "end"]

\* One iteration of the loop over out_events; pushed tells which gesture
\* token, if any, reached set_or_update.
on_out_event(x, e) ==
    IF e.type = "ParamGestureBegin" THEN gesture_begin(x, e.param_id)
    ELSE IF e.type = "ParamGestureEnd" THEN gesture_end(x, e.param_id)
    ELSE [x EXCEPT !.to_main_q = set_or_update(@, e.param_id,
                                     AudioToMainParamValue(TRUE, "none")),
                   !.pushed = "none"]

\* The loop over out_events. Besides the code's state the record carries
\* what the block is judged by: last_act and last_life are the last gesture
\* token pushed for each parameter since the activation and since the plugin
\* was loaded, rep_act and rep_life tell whether a token was pushed that
\* repeats them, first_end whether an end was pushed before any begin of the
\* activation, rejected counts the gesture events received against the flag,
\* and rej_changed tells whether one of those changed flag or queue.
RECURSIVE handle_out_events(_, _)
handle_out_events(x, out_events) ==
    IF out_events = <<>> THEN x
    ELSE LET e == Head(out_events)
             p == e.param_id
             against ==
                \/ e.type = "ParamGestureBegin" /\ x.is_adjusting[p]
                \/ e.type = "ParamGestureEnd" /\ ~x.is_adjusting[p]
             y == on_out_event(x, e)
             z == [y EXCEPT
                     !.rejected = IF against THEN @ + 1 ELSE @,
                     !.rej_changed =
                        \/ @
                        \/ /\ against
                           /\ \/ y.is_adjusting # x.is_adjusting
                              \/ y.to_main_q # x.to_main_q
                              \/ y.pushed # "none",
                     !.accepted = IF y.pushed # "none" THEN @ + 1 ELSE @,
                     !.rep_act = @ \/ (y.pushed # "none"
                                        /\ y.pushed = x.last_act[p]),
                     !.rep_life = @ \/ (y.pushed # "none"
                                         /\ y.pushed = x.last_life[p]),
                     !.first_end = @ \/ (y.pushed = "end"
                                          /\ x.last_act[p] = "none"),
                     !.last_act[p] = IF y.pushed # "none" THEN y.pushed
                                     ELSE @,
                     !.last_life[p] = IF y.pushed # "none" THEN y.pushed
                                      ELSE @]
         IN  handle_out_events(z, Tail(out_events))

\* The sibling as activate builds it: no parameter is adjusting, the queue
\* is empty.
FreshGestures(last_life, activations) ==
    [is_adjusting |-> [p \in GestureParamIds |-> FALSE],
     to_main_q |-> [p \in GestureParamIds |-> NoEntry],
     pushed |-> "none",
     last_act |-> [p \in GestureParamIds |-> "none"],
     last_life |-> last_life,
     activations |-> activations,
     rejected |-> 0, accepted |-> 0, rej_changed |-> FALSE,
     rep_act |-> FALSE, rep_life |-> FALSE, first_end |-> FALSE,
     via |-> "none", emitted |-> {}]

GsIdle == FreshGestures([p \in GestureParamIds |-> "none"], 1)

\* The per-block part of the record, cleared.
NewBlock(x) ==
    [x EXCEPT !.pushed = "none", !.rejected = 0, !.accepted = 0,
              !.rej_changed = FALSE, !.rep_act = FALSE, !.rep_life = FALSE,
              !.first_end = FALSE, !.via = "none", !.emitted = {}]

-----------------------------------------------------------------------------
\* The audio callback and the ring buffers between it and the process thread.

\* Bounds on the channel counts and on the length of the device buffer.
MaxCh == 2
MaxLen == 3

\* Frames per channel the rings are allocated for; every device buffer of the
\* model fits, as a buffer of a few milliseconds fits the three seconds of
\* ALLOCATED_FRAMES_PER_CHANNEL.
AllocFrames == MaxLen

\* A sample the callback did not assign: whatever the device buffer held.
Stale == -1

\* The f32 sample v / SampleScale is written v; the samples the process
\* thread renders are 1..MaxLen*MaxCh, told apart by frame and channel.
SampleScale == MaxLen * MaxCh

I16Max == 32767

SampleFormats == {"f32", "i16"}

\* T::from(&f32) of the device's sample type: f32 is kept, i16 is the sample
\* times i16::MAX, truncated.
from_f32(T, s) ==
    IF T = "f32" THEN s ELSE (s * I16Max) \div SampleScale

\* clear_output: every sample of the slice becomes T::from(&0.0).
clear_output(T, out) == [i \in 1..Len(out) |-> from_f32(T, 0)]

\* The output ring: data holds the queued samples, oldest first, and the
\* oldest of them sits at slot head of the cap slots.
Ring(cap) == [cap |-> cap, head |-> 0, data |-> <<>>]

\* Producer::write_chunk and commit_all: fails when the slots are not free.
RingCanWrite(ring, n) == Len(ring.data) + n <= ring.cap

RingWrite(ring, samples) == [ring EXCEPT !.data = @ \o samples]

\* Consumer::read_chunk(n) and commit_all: the n oldest samples leave.
RingCommit(ring, n) ==
    [ring EXCEPT !.head = IF ring.cap = 0 THEN 0 ELSE (@ + n) % ring.cap,
                 !.data = SubSeq(@, n + 1, Len(@))]

\* ReadChunk::as_slices: the chunk of n samples up to the end of the slots,
\* and the rest of it from slot 0 on.
as_slices(ring, n) ==
    LET first == IF n <= ring.cap - ring.head THEN n
                 ELSE ring.cap - ring.head
    IN  [slice_1 |-> SubSeq(ring.data, 1, first),
         slice_2 |-> SubSeq(ring.data, first + 1, n)]

\* The block of total_frames frames the process thread copies into the
\* output ring, interleaved over the engine's out_channels.
RenderedBlock(total_frames, out_channels) ==
    [j \in 1..(total_frames * out_channels) |-> j]

\* The copy of a chunk into the device buffer when the device and the
\* engine have the same channel count.
copy_equal(T, out, slice_1, slice_2) ==
    [j \in 1..Len(out) |->
        IF j <= Len(slice_1) THEN from_f32(T, slice_1[j])
        ELSE IF j <= Len(slice_1) + Len(slice_2)
             THEN from_f32(T, slice_2[j - Len(slice_1)])
        ELSE out[j]]

\* The copy with the engine's frame stride taken for the device's.
copy_mapped_same_stride(T, out, slice_1, slice_2, cpal_out_channels, out_channels, total_frames) ==
    [j \in 1..Len(out) |->
        LET i == (j - 1) \div cpal_out_channels
            ch_i == (j - 1) % cpal_out_channels
            i2 == (i * cpal_out_channels) + ch_i
        IN  IF i >= total_frames THEN out[j]
            ELSE IF ch_i < out_channels
                 THEN IF i2 < Len(slice_1) THEN from_f32(T, slice_1[i2 + 1])
                      ELSE IF i2 - Len(slice_1) < Len(slice_2)
                           THEN from_f32(T, slice_2[i2 - Len(slice_1) + 1])
                           ELSE out[j]
            ELSE from_f32(T, 0)]

\* The copy when the channel counts differ: device sample (i, ch_i) is the
\* engine's sample (i, ch_i) for ch_i < out_channels and zero otherwise.
copy_mapped(T, out, slice_1, slice_2, cpal_out_channels, out_channels, total_frames) ==
    [j \in 1..Len(out) |->
        LET i == (j - 1) \div cpal_out_channels
            ch_i == (j - 1) % cpal_out_channels
            i2 == (i * out_channels) + ch_i
        IN  IF i >= total_frames THEN out[j]
            ELSE IF ch_i < out_channels
                 THEN IF i2 < Len(slice_1) THEN from_f32(T, slice_1[i2 + 1])
                      ELSE from_f32(T, slice_2[i2 - Len(slice_1) + 1])
            ELSE from_f32(T, 0)]

\* What the callback leaves in the device buffer on underrun, with the
\* buffer left as it was.
on_underrun_keep(T, out) == out

\* What the callback leaves in the device buffer on underrun.
on_underrun(T, out) == clear_output(T, out)

\* The process thread takes the frames asked for (the input chunks, or the
\* num_frames_wanted atomic) and starts rendering them.
proc_pick(x) ==
    IF x.rendering = 0 /\ x.pending > 0
    THEN [x EXCEPT !.rendering = x.pending, !.pending = 0,
                   !.rendering_old = x.pending_old, !.pending_old = FALSE]
    ELSE x

\* The process thread copies the block it rendered into the output ring; a
\* block the ring has no room for is lost.
proc_deliver(x) ==
    IF x.rendering = 0 THEN x
    ELSE LET block == RenderedBlock(x.rendering, x.out_channels)
         IN  IF RingCanWrite(x.ring, Len(block))
             THEN [x EXCEPT !.ring = RingWrite(@, block), !.rendering = 0,
                            !.written = @ + Len(block),
                            !.ring_old = @ \/ x.rendering_old,
                            !.rendering_old = FALSE]
             ELSE [x EXCEPT !.rendering = 0, !.rendering_old = FALSE]

\* What the process thread can get done while the callback polls: nothing,
\* the delivery of a block it was still rendering, the rendering of the
\* block just asked for, or both.
WindowSteps ==
    {<<>>, <<"deliver">>, <<"pick", "deliver">>,
     <<"deliver", "pick", "deliver">>}

\* The polling loop: read_chunk(num_out_samples) is tried until it succeeds
\* or the time is up; steps is what the process thread does meanwhile.
RECURSIVE poll(_, _, _)
poll(x, num_out_samples, steps) ==
    IF Len(x.ring.data) >= num_out_samples THEN [hit |-> TRUE, x |-> x]
    ELSE IF steps = <<>> THEN [hit |-> FALSE, x |-> x]
    ELSE poll(IF Head(steps) = "pick" THEN proc_pick(x) ELSE proc_deliver(x),
              num_out_samples, Tail(steps))

\* The device buffer as the driver hands it over: nothing assigned yet.
StaleBuffer(len) == [j \in 1..len |-> Stale]

\* DAWEngineAudioThread::process_cpal_interleaved_output_only. The record
\* keeps, next to the fields of the object and the rings, what the last call
\* was given and did: the buffer out, the result, the slices read, the
\* samples the process thread wrote while the call polled, and the result of
\* the call before. It also keeps which frames asked for, which block under
\* way and which queued samples answer a cycle before the current one
\* (pending_old, rendering_old, ring_old), and whether the chunk the call
\* read held such samples (delivered_old).
process_cpal_interleaved_output_only(x0, T, cpal_out_channels, out, steps) ==
    LET x == [x0 EXCEPT !.prev_result = x0.result, !.written = 0,
                        !.total_frames = 0,
                        !.slice_1 = <<>>, !.slice_2 = <<>>,
                        !.pending_old = x0.pending > 0,
                        !.rendering_old = x0.rendering > 0,
                        !.ring_old = Len(x0.ring.data) > 0,
                        !.delivered_old = FALSE]
    IN
    IF Len(out) < x.out_channels \/ cpal_out_channels = 0
    THEN [x EXCEPT !.out = clear_output(T, out), !.result = "cleared"]
    ELSE
    LET total_frames == Len(out) \div cpal_out_channels
        discarded == [x EXCEPT !.ring = RingCommit(@, Len(@.data)),
                               !.ring_old = FALSE,
                               !.total_frames = total_frames]
        input_ok == \/ x.in_channels = 0
                    \/ x.pending + total_frames <= AllocFrames
        asked == [discarded EXCEPT
                    !.pending = IF x.in_channels = 0 THEN total_frames
                                ELSE @ + total_frames,
                    !.pending_old = IF x.in_channels = 0 THEN FALSE ELSE @]
        num_out_samples == total_frames * x.out_channels
        polled == poll(asked, num_out_samples, steps)
        y == polled.x
        chunk == as_slices(y.ring, num_out_samples)
    IN
    IF ~input_ok
    THEN [discarded EXCEPT !.out = clear_output(T, out),
                           !.result = "input_full"]
    ELSE IF num_out_samples = 0
    THEN [asked EXCEPT !.out = out, !.result = "no_samples"]
    ELSE IF polled.hit
    THEN [y EXCEPT
            !.out = IF cpal_out_channels = x.out_channels
                    THEN copy_equal(T, out, chunk.slice_1, chunk.slice_2)
                    ELSE copy_mapped(T, out, chunk.slice_1, chunk.slice_2,
                                     cpal_out_channels, x.out_channels,
                                     total_frames),
            !.slice_1 = chunk.slice_1, !.slice_2 = chunk.slice_2,
            !.ring = RingCommit(@, num_out_samples),
            !.delivered_old = y.ring_old,
            !.result = "read"]
    ELSE [y EXCEPT !.out = on_underrun(T, out), !.result = "underrun"]

\* DAWEngineAudioThread::new for the given channel counts, on a device
\* stream of sample type T with cpal_out_channels channels.
CbOf(in_channels, out_channels, T, cpal_out_channels) ==
    [in_channels |-> in_channels, out_channels |-> out_channels,
     ring |-> Ring(out_channels * AllocFrames),
     pending |-> 0, rendering |-> 0,
     T |-> T, cpal_out_channels |-> cpal_out_channels,
     total_frames |-> 0, out |-> <<>>,
     result |-> "none", prev_result |-> "none", written |-> 0,
     slice_1 |-> <<>>, slice_2 |-> <<>>,
     pending_old |-> FALSE, rendering_old |-> FALSE, ring_old |-> FALSE,
     delivered_old |-> FALSE]

CbIdle == CbOf(0, 0, "f32", 0)

-----------------------------------------------------------------------------
\* The engine's main thread: DSEngineMainThread and its audio graph.

\* Bounds on the plugins added to one graph, on the process threads started
\* and on the version of the tempo map.
MaxPlugins == 1
MaxThreads == 2
MaxVersion == 1

\* The ids of the two endpoints of a graph, the first two it hands out.
GraphInId == 0
GraphOutId == 1
FirstPluginId == 2

\* Channels of the main audio ports of every plugin of the model.
PluginChannels == 2

\* self.audio_graph = None.
NoGraph ==
    [some |-> FALSE, in_ch |-> 0, out_ch |-> 0, plugins |-> {},
     edges |-> {}, next_id |-> FirstPluginId]

\* AudioGraph::new: a graph holding the two endpoints only.
AudioGraphNew(num_audio_in_channels, num_audio_out_channels) ==
    [some |-> TRUE, in_ch |-> num_audio_in_channels,
     out_ch |-> num_audio_out_channels, plugins |-> {}, edges |-> {},
     next_id |-> FirstPluginId]

NodeIds(g) == {GraphInId, GraphOutId} \cup g.plugins

\* Channels of the main audio output and input port of a node.
OutChannelsOf(g, id) ==
    IF id = GraphInId THEN g.in_ch
    ELSE IF id = GraphOutId THEN 0 ELSE PluginChannels

InChannelsOf(g, id) ==
    IF id = GraphOutId THEN g.out_ch
    ELSE IF id = GraphInId THEN 0 ELSE PluginChannels

\* Whether node to can be reached from node from over at most n edges.
RECURSIVE Reaches(_, _, _, _)
Reaches(edges, from, to, n) ==
    \/ from = to
    \/ /\ n > 0
       /\ \E e \in edges : e.src = from /\ Reaches(edges, e.dst, to, n - 1)

\* AudioGraph::connect_edge: the edge is rejected for an unknown endpoint, a
\* channel out of range, an edge already there, or an edge closing a cycle.
connect_ok(g, src_plugin_id, dst_plugin_id, channel) ==
    /\ src_plugin_id \in NodeIds(g)
    /\ dst_plugin_id \in NodeIds(g)
    /\ src_plugin_id # dst_plugin_id
    /\ channel < OutChannelsOf(g, src_plugin_id)
    /\ channel < InChannelsOf(g, dst_plugin_id)
    /\ [src |-> src_plugin_id, dst |-> dst_plugin_id, ch |-> channel]
            \notin g.edges
    /\ ~Reaches(g.edges, dst_plugin_id, src_plugin_id, Cardinality(g.edges))

connect_edge(g, src_plugin_id, dst_plugin_id, channel) ==
    IF connect_ok(g, src_plugin_id, dst_plugin_id, channel)
    THEN [g EXCEPT !.edges = @ \cup {[src |-> src_plugin_id,
                                      dst |-> dst_plugin_id,
                                      ch |-> channel]}]
    ELSE g

\* AudioGraph::disconnect_edge.
disconnect_edge(g, edge) == [g EXCEPT !.edges = @ \ {edge}]

\* AudioGraph::remove_plugin_instances: the listed plugins leave the graph
\* with their edges; the endpoints stay.
remove_plugin_instances(g, ids) ==
    LET removed == {ids[k] : k \in 1..Len(ids)} \cap g.plugins
    IN  [g EXCEPT !.plugins = @ \ removed,
                  !.edges = {e \in @ : e.src \notin removed
                                         /\ e.dst \notin removed}]

\* AudioGraph::add_new_plugin_instance: the plugin gets the next id.
add_new_plugin_instance(g) ==
    [g EXCEPT !.plugins = @ \cup {g.next_id}, !.next_id = @ + 1]

\* AudioGraph::compile: the graph of the two endpoints always compiles; a
\* graph with plugins fails when the compiler meets one of its fatal
\* conditions, given here as the input fail.
compile_fails(g, fail) == fail /\ g.plugins # {}

\* AudioGraph::collect_save_state.
collect_save_state(g) == [plugins |-> g.plugins, edges |-> g.edges]

NoSaveState == [plugins |-> {}, edges |-> {}]

\* The events of the engine.
EngineEvent(type, info, save_state) ==
    [type |-> type, info |-> info, save_state |-> save_state]

\* The endpoints an EdgeReq can name.
Existing(id) == [kind |-> "Existing", n |-> id]
Added(index) == [kind |-> "Added", n |-> index]

\* new_plugin_ids.get(index) with the index counted from one.
resolve_from_one(new_plugin_ids, id_req) ==
    IF id_req.kind = "Existing" THEN [ok |-> TRUE, id |-> id_req.n]
    ELSE IF id_req.n >= 1 /\ id_req.n <= Len(new_plugin_ids)
         THEN [ok |-> TRUE, id |-> new_plugin_ids[id_req.n]]
    ELSE [ok |-> FALSE, id |-> GraphInId]

\* The match on PluginIDReq in modify_graph: Existing(id) is id, Added(index)
\* is new_plugin_ids.get(index), which may be out of bounds.
resolve(new_plugin_ids, id_req) ==
    IF id_req.kind = "Existing" THEN [ok |-> TRUE, id |-> id_req.n]
    ELSE IF id_req.n < Len(new_plugin_ids)
         THEN [ok |-> TRUE, id |-> new_plugin_ids[id_req.n + 1]]
    ELSE [ok |-> FALSE, id |-> GraphInId]

\* DSEngineMainThread::new: no graph, no process thread, no tempo map.
EngIdle ==
    [audio_graph |-> NoGraph,
     run_process_thread |-> 0, process_thread_handle |-> 0,
     tempo_map_shared |-> [some |-> FALSE, version |-> 0],
     threads |-> <<>>, panicked |-> FALSE, crashed |-> FALSE,
     op |-> "new", valid |-> TRUE, target |-> 0, events |-> <<>>,
     trace |-> <<>>,
     outcomes |-> <<>>, new_plugin_ids |-> <<>>,
     req |-> [add |-> 0, remove |-> <<>>, disconnect |-> <<>>,
              connect |-> <<>>]]

\* What every request handler starts from: the record of the last request
\* cleared.
Handling(e, op, valid) ==
    [e EXCEPT !.op = op, !.valid = valid, !.target = 0, !.events = <<>>,
              !.trace = <<>>,
              !.outcomes = <<>>, !.new_plugin_ids = <<>>,
              !.req = EngIdle.req]

\* run_process_thread.take() followed by store(false): the thread the flag
\* belongs to is told to stop.
stop_flag(e) ==
    [e EXCEPT !.run_process_thread = 0,
              !.threads = [t \in 1..Len(@) |->
                    IF t = e.run_process_thread
                    THEN [@[t] EXCEPT !.run = FALSE] ELSE @[t]]]

\* The Err arm of compile_audio_graph with the graph put back.
on_compile_error_keep_graph(e) ==
    [stop_flag(e) EXCEPT
        !.process_thread_handle = 0,
        !.crashed = TRUE,
        !.events = Append(@, EngineEvent("EngineDeactivated",
                                "EngineCrashed", NoSaveState))]

\* The Err arm of compile_audio_graph: the process thread is told to stop,
\* the event is sent and the graph, taken out of self, is dropped.
on_compile_error(e) ==
    [stop_flag(e) EXCEPT
        !.process_thread_handle = 0,
        !.crashed = TRUE,
        !.events = Append(@, EngineEvent("EngineDeactivated",
                                "EngineCrashed", NoSaveState)),
        !.audio_graph = NoGraph]

\* DSEngineMainThread::compile_audio_graph.
compile_audio_graph(e, fail) ==
    IF ~e.audio_graph.some THEN e
    ELSE IF ~compile_fails(e.audio_graph, fail)
    THEN [e EXCEPT !.trace = Append(@, "compile")]
    ELSE on_compile_error([e EXCEPT !.trace = Append(@, "compile")])

\* DSEngineMainThread::activate_engine. The two default edges are unwrapped,
\* so a rejected one panics.
activate_engine(e0, num_audio_in_channels, num_audio_out_channels, fail) ==
    IF e0.audio_graph.some THEN Handling(e0, "ActivateEngine", FALSE)
    ELSE
    LET e == Handling(e0, "ActivateEngine", TRUE)
        g0 == AudioGraphNew(num_audio_in_channels, num_audio_out_channels)
        ok0 == connect_ok(g0, GraphInId, GraphOutId, 0)
        g1 == connect_edge(g0, GraphInId, GraphOutId, 0)
        ok1 == connect_ok(g1, GraphInId, GraphOutId, 1)
        g2 == connect_edge(g1, GraphInId, GraphOutId, 1)
        compiled == compile_audio_graph([e EXCEPT !.audio_graph = g2], fail)
        stopped == stop_flag(compiled)
        t == Len(e.threads) + 1
    IN  IF ~ok0 \/ ~ok1 THEN [e EXCEPT !.panicked = TRUE]
        ELSE IF ~compiled.audio_graph.some
        THEN [compiled EXCEPT !.panicked = TRUE]
        ELSE [stopped EXCEPT
                !.threads = Append(@, [run |-> TRUE, in_block |-> FALSE,
                                       alive |-> TRUE]),
                !.run_process_thread = t,
                !.process_thread_handle = t,
                !.tempo_map_shared = [some |-> TRUE, version |-> 0],
                !.crashed = FALSE,
                !.events = Append(@, EngineEvent("EngineActivated", "",
                                        NoSaveState))]

\* DSEngineMainThread::deactivate_engine.
deactivate_engine(e0) ==
    IF ~e0.audio_graph.some THEN Handling(e0, "DeactivateEngine", FALSE)
    ELSE
    LET e == Handling(e0, "DeactivateEngine", TRUE)
        save_state == collect_save_state(e.audio_graph)
    IN  [stop_flag([e EXCEPT !.audio_graph = NoGraph]) EXCEPT
            !.process_thread_handle = 0,
            !.tempo_map_shared = [some |-> FALSE, version |-> 0],
            !.events = Append(@, EngineEvent("EngineDeactivated",
                                    "DeactivatedGracefully", save_state))]

\* The loop over req.disconnect_edges.
RECURSIVE disconnect_all(_, _)
disconnect_all(e, edges) ==
    IF edges = <<>> THEN e
    ELSE disconnect_all(
            [e EXCEPT !.audio_graph = disconnect_edge(@, Head(edges)),
                      !.trace = Append(@, "disconnect_edge")],
            Tail(edges))

\* The map over req.add_plugin_instances.
RECURSIVE add_all(_, _)
add_all(e, n) ==
    IF n = 0 THEN e
    ELSE add_all(
            [e EXCEPT !.audio_graph = add_new_plugin_instance(@),
                      !.new_plugin_ids = Append(@, e.audio_graph.next_id),
                      !.trace = Append(@, "add_new_plugin_instance")],
            n - 1)

\* The loop over req.connect_new_edges: an edge whose Added index is out of
\* bounds, or that the graph rejects, is skipped.
RECURSIVE connect_all(_, _)
connect_all(e, edge_reqs) ==
    IF edge_reqs = <<>> THEN e
    ELSE LET edge == Head(edge_reqs)
             src == resolve(e.new_plugin_ids, edge.src_plugin_id)
             dst == resolve(e.new_plugin_ids, edge.dst_plugin_id)
             next ==
                IF ~src.ok \/ ~dst.ok
                THEN [e EXCEPT !.outcomes = Append(@, "out_of_bounds")]
                ELSE IF ~connect_ok(e.audio_graph, src.id, dst.id,
                                    edge.channel)
                THEN [e EXCEPT !.outcomes = Append(@, "rejected"),
                               !.trace = Append(@, "connect_edge")]
                ELSE [e EXCEPT
                        !.audio_graph = connect_edge(@, src.id, dst.id,
                                                     edge.channel),
                        !.outcomes = Append(@, "connected"),
                        !.trace = Append(@, "connect_edge")]
         IN  connect_all(next, Tail(edge_reqs))

\* DSEngineMainThread::modify_graph.
modify_graph(e0, req, fail) ==
    IF ~e0.audio_graph.some THEN Handling(e0, "ModifyGraph", FALSE)
    ELSE
    LET e == [Handling(e0, "ModifyGraph", TRUE) EXCEPT !.req = req]
        disconnected == disconnect_all(e, req.disconnect)
        removed ==
            [disconnected EXCEPT
                !.audio_graph = remove_plugin_instances(@, req.remove),
                !.trace = Append(@, "remove_plugin_instances")]
        added == add_all(removed, req.add)
        connected == connect_all(added, req.connect)
        compiled == compile_audio_graph(connected, fail)
    IN  [compiled EXCEPT
            !.trace = Append(@, "AudioGraphModified"),
            !.events = Append(@, EngineEvent("AudioGraphModified", "",
                                    NoSaveState))]

\* DSEngineMainThread::restore_audio_graph_from_save_state.
restore_audio_graph_from_save_state(e0, save_state, fail) ==
    IF ~e0.audio_graph.some THEN Handling(e0, "RestoreFromSaveState", FALSE)
    ELSE
    LET e == Handling(e0, "RestoreFromSaveState", TRUE)
        cleared == [e EXCEPT
                      !.events = Append(@, EngineEvent("AudioGraphCleared",
                                              "", NoSaveState)),
                      !.audio_graph = [@ EXCEPT
                            !.plugins = save_state.plugins,
                            !.edges = save_state.edges]]
        compiled == compile_audio_graph(cleared, fail)
    IN  IF ~compiled.audio_graph.some THEN compiled
        ELSE [compiled EXCEPT
                !.events = @ \o
                    <<EngineEvent("AudioGraphModified", "", NoSaveState),
                      EngineEvent("NewSaveState", "",
                            collect_save_state(compiled.audio_graph))>>]

\* DSEngineMainThread::request_latest_save_state.
request_latest_save_state(e0) ==
    IF ~e0.audio_graph.some
    THEN Handling(e0, "RequestLatestSaveState", FALSE)
    ELSE [Handling(e0, "RequestLatestSaveState", TRUE) EXCEPT
            !.events = <<EngineEvent("NewSaveState", "",
                            collect_save_state(e0.audio_graph))>>]

\* The UpdateTempoMap arm of run: the cell gets the next version.
update_tempo_map(e0) ==
    IF ~e0.tempo_map_shared.some THEN Handling(e0, "UpdateTempoMap", TRUE)
    ELSE [Handling(e0, "UpdateTempoMap", TRUE) EXCEPT
            !.tempo_map_shared.version = @ + 1]

\* The Plugin arm of run without the lookup of the id.
plugin_request_any_id(e0, instance_id, request) ==
    [Handling(e0, "Plugin", TRUE) EXCEPT
        !.target = instance_id,
        !.trace = <<request>>]

\* The Plugin arm of run: the request is passed to the plugin's main thread
\* (which opens a closed GUI or closes an open one); a request for an id
\* the graph does not hold is ignored.
plugin_request(e0, instance_id, request) ==
    IF ~e0.audio_graph.some \/ instance_id \notin e0.audio_graph.plugins
    THEN [Handling(e0, "Plugin", FALSE) EXCEPT !.target = instance_id]
    ELSE [Handling(e0, "Plugin", TRUE) EXCEPT
            !.target = instance_id,
            !.trace = <<request>>]

\* The end of one turn of run: a graph that asks for it is recompiled.
idle_recompile(e0, recompile, fail) ==
    IF e0.audio_graph.some /\ recompile
    THEN compile_audio_graph(Handling(e0, "on_idle", TRUE), fail)
    ELSE Handling(e0, "on_idle", TRUE)

\* The process thread's loop: a block of the schedule is run as long as the
\* flag is set, and the thread ends when it finds the flag cleared.
pt_begin_block(e0, t) ==
    [Handling(e0, "process_thread", TRUE) EXCEPT
        !.threads[t].in_block = TRUE]

pt_end_block(e0, t) ==
    [Handling(e0, "process_thread", TRUE) EXCEPT
        !.threads[t].in_block = FALSE]

pt_exit(e0, t) ==
    [Handling(e0, "process_thread", TRUE) EXCEPT
        !.threads[t].alive = FALSE]

----------------------------------------------------------------------------
\* Buffers and tasks of a schedule

\* Capacity of an audio buffer (max_frames), the audio buffers a task is
\* wired to, and the note-out ports of a plugin.
MaxFrames == 2
MaxBuffers == 3
MaxNotePorts == 1

\* Nothing has been applied yet.
PxIdle == [op |-> "none"]

BufferIds == 1..MaxBuffers

\* The sample buffer b holds at frame k before a block: a value no other
\* buffer and no other frame holds, and never zero.
SampleOf(b, k) == (b - 1) * MaxFrames + k

\* SharedBuffer<f32>: max_frames samples and the constant flag.
SharedBuffer(b, constant) ==
    [data |-> [k \in 1..MaxFrames |-> SampleOf(b, k)], constant |-> constant]

\* SharedBuffer::clear_f32: the first frames samples are set to zero.
clear_f32(buf, frames) ==
    [buf EXCEPT !.data = [k \in 1..MaxFrames |->
                            IF k <= frames THEN 0 ELSE buf.data[k]]]

\* A body of the pass-through loop that copies the samples and leaves the
\* output's constant flag as it was.
pass_through_keep_flag(bufs, in_buf, out_buf, frames) ==
    [bufs EXCEPT ![out_buf].data =
        [k \in 1..MaxFrames |->
            IF k <= frames THEN bufs[in_buf].data[k]
            ELSE bufs[out_buf].data[k]]]

\* The body of the loop over audio_through: the output takes the input's
\* constant flag and the input's first frames samples.
pass_through(bufs, in_buf, out_buf, frames) ==
    [bufs EXCEPT ![out_buf] =
        [constant |-> bufs[in_buf].constant,
         data |-> [k \in 1..MaxFrames |->
                    IF k <= frames THEN bufs[in_buf].data[k]
                    ELSE bufs[out_buf].data[k]]]]

\* for (in_buf, out_buf) in self.audio_through.iter()
RECURSIVE pass_through_all(_, _, _)
pass_through_all(bufs, audio_through, frames) ==
    IF audio_through = <<>> THEN bufs
    ELSE pass_through_all(
            pass_through(bufs, Head(audio_through)[1], Head(audio_through)[2],
                         frames),
            Tail(audio_through), frames)

\* for out_buf in self.extra_audio_out.iter()
RECURSIVE clear_extra(_, _, _)
clear_extra(bufs, extra_audio_out, frames) ==
    IF extra_audio_out = <<>> THEN bufs
    ELSE clear_extra(
            [bufs EXCEPT ![Head(extra_audio_out)] = clear_f32(@, frames)],
            Tail(extra_audio_out), frames)

\* An event buffer a task has none of (None).
NoBuffer == <<"None">>

\* b.clear() on an event buffer that is Some.
clear_events(buf) == IF buf = NoBuffer THEN NoBuffer ELSE <<>>

\* DeactivatedPluginTask::process on the audio buffers bufs and the task's
\* event buffers.
deactivated_plugin_task_process(task, frames, bufs) ==
    [bufs |-> clear_extra(
                pass_through_all(bufs, task.audio_through, frames),
                task.extra_audio_out, frames),
     automation_out_buffer |-> clear_events(task.automation_out_buffer),
     note_out_buffers |-> [p \in 1..Len(task.note_out_buffers) |->
                            clear_events(task.note_out_buffers[p])]]

----------------------------------------------------------------------------
\* The constant mask of an audio port and the constant flags of its buffers

\* 1 << i
Shl(i) == 2 ^ i

\* mask & (1 << i), for a mask below 2^64
BitAnd(mask, i) == ((mask \div Shl(i)) % 2) * Shl(i)

\* RawAudioChannelBuffers: the sample type of a port's buffers.
RawAudioChannelBuffers == {"F32", "F64"}

\* AudioPortBufferMut::sync_constant_mask_to_buffers, channel i (from 0) of
\* a port of sample type T: the new constant flag of the channel's buffer.
sync_to_buffer(T, constant_mask, i, is_constant) ==
    IF T = "F32" THEN BitAnd(constant_mask, i) = 1
    ELSE IF is_constant THEN BitAnd(constant_mask, i) = 1
    ELSE is_constant

\* AudioPortBufferMut::sync_constant_mask_to_buffers: flags[i + 1] is the
\* constant flag of the buffer of channel i.
sync_constant_mask_to_buffers(T, constant_mask, flags) ==
    [c \in 1..Len(flags) |->
        sync_to_buffer(T, constant_mask, c - 1, flags[c])]

\* AudioPortBuffer::sync_constant_mask_from_buffers: the mask starts at 0
\* and gets bit i for every buffer that is constant.
RECURSIVE sync_constant_mask_from_buffers(_, _)
sync_constant_mask_from_buffers(flags, i) ==
    IF i >= Len(flags) THEN 0
    ELSE (IF flags[i + 1] THEN Shl(i) ELSE 0)
            + sync_constant_mask_from_buffers(flags, i + 1)

----------------------------------------------------------------------------
\* EventQueue: the event buffer handed to plugins

\* Largest capacity an EventQueue is built with, and the most events the
\* model pushes into one.
MaxCapacity == 2
MaxQueueLen == 3

\* The two EventQueue types: the graph's holds ProcEvent values as they
\* are, the plugin interface's holds AllocatedEvent values.
QueueTypes == {"ProcEvent", "AllocatedEvent"}

\* The events of the model: two kinds, of different sizes, told apart by id.
EventKinds == {"ParamValue", "Transport"}

QueueEvents == [kind : EventKinds, id : 1..2]

\* size_of of the CLAP struct of an event kind, in units of the smallest.
SizeOfEvent(kind) == IF kind = "Transport" THEN 2 ELSE 1

\* AllocatedEvent::from_event: header.size is set to the size of the
\* event's struct, whose bytes are copied into an array of the size of
\* EventTransport, the rest being zero.
from_event(event) ==
    [kind |-> event.kind, id |-> event.id, size |-> SizeOfEvent(event.kind),
     padding |-> SizeOfEvent("Transport") - SizeOfEvent(event.kind)]

\* What push stores for an event.
Stored(type, event) ==
    IF type = "AllocatedEvent" THEN from_event(event) ELSE event

\* EventQueue::new
EventQueueNew(type, capacity) ==
    [type |-> type, events |-> <<>>, capacity |-> capacity]

\* A push that refuses the event when the queue is at its capacity.
push_bounded(q, event, grown) ==
    IF Len(q.events) >= q.capacity THEN [q |-> q, warned |-> TRUE]
    ELSE [q |-> [q EXCEPT !.events = Append(@, Stored(q.type, event))],
          warned |-> FALSE]

\* EventQueue::push: warns if the Vec is at its capacity, then pushes; a
\* Vec at its capacity reallocates, to the capacity grown.
push(q, event, grown) ==
    [q |-> [q EXCEPT !.events = Append(@, Stored(q.type, event)),
                     !.capacity = IF Len(q.events) >= q.capacity
                                  THEN grown ELSE @],
     warned |-> Len(q.events) >= q.capacity]

\* EventQueue::pop: Vec::pop takes the last event.
pop(q) ==
    IF q.events = <<>> THEN q
    ELSE [q EXCEPT !.events = SubSeq(@, 1, Len(@) - 1)]

\* EventQueue::clear: Vec::clear keeps the capacity.
clear(q) == [q EXCEPT !.events = <<>>]

----------------------------------------------------------------------------
\* Silence of an audio port

\* AudioPortBuffer::is_silent and AudioPortBufferMut::is_silent (the same
\* body, for both sample types): with a mask of 0 the first sample of every
\* channel is looked at, with any other mask the first frames samples of
\* every channel.
is_silent(channels, constant_mask, frames) ==
    IF constant_mask = 0
    THEN \A c \in 1..Len(channels) : channels[c].data[1] = 0
    ELSE \A c \in 1..Len(channels) :
            \A k \in 1..frames : channels[c].data[k] = 0

\* The constant flags of the buffers of a port.
FlagsOf(channels) == [c \in 1..Len(channels) |-> channels[c].constant]

----------------------------------------------------------------------------
\* One block of a plugin's sibling, with its events and its audio input

\* ProcBuffers::audio_inputs_silent for one input port, after the sync of
\* the port's constant mask from its buffers.
audio_inputs_silent(channels, frames) ==
    is_silent(channels,
              sync_constant_mask_from_buffers(FlagsOf(channels), 0), frames)

\* What a block that got as far as r hands back: the sibling's
\* ProcessingState, the start_processing flag and the PluginState after the
\* block, the calls made to the plugin in their order, what the audio
\* outputs hold, whether the input events were read into in_events, which
\* call of the plugin was handed them, and in_events at the return. The
\* plugin's param_flush is called when the events were read, one of them is
\* a parameter event and the plugin's process is not run.
block_result(r, st, reads, param, status) ==
    LET f == finish_process(r.processing_state, status)
        calls == r.calls \o (IF r.resume THEN f.calls ELSE <<>>)
        ran == \E i \in 1..Len(calls) : calls[i] = "process"
        flush == reads /\ param /\ ~ran
    IN  [processing_state |-> IF r.resume THEN f.processing_state
                              ELSE r.processing_state,
         start_processing |-> r.start_processing,
         state |-> IF r.resume THEN "Active" ELSE st,
         calls |-> calls \o (IF flush THEN <<"param_flush">> ELSE <<>>),
         out |-> IF r.resume THEN f.out ELSE r.out,
         reads |-> reads,
         handed |-> IF ran THEN "process"
                    ELSE IF flush THEN "param_flush" ELSE "none",
         in_events |-> <<>>]

\* A variant of process that takes no input event for a parameter event.
process_block_no_param(ps, st, sp, note, param, channels, frames, start_ok, status) ==
    block_result(process(ps, st, sp, note,
                         audio_inputs_silent(channels, frames),
                         start_ok, status),
                 st, reads_events(ps, st, sp), FALSE, status)

\* A variant of process that never looks at the start_processing flag.
process_block_ignore_wake(ps, st, sp, note, param, channels, frames, start_ok, status) ==
    [block_result(process(ps, st, FALSE, note,
                          audio_inputs_silent(channels, frames),
                          start_ok, status),
                  st, reads_events(ps, st, FALSE), param, status)
        EXCEPT !.start_processing = sp]

\* PluginInstanceHostAudioThread::process from its first line to its
\* return: note and param tell whether the block carries a note input event
\* and a parameter input event, channels are the buffers of the audio input
\* port.
process_block(ps, st, sp, note, param, channels, frames, start_ok, status) ==
    block_result(process(ps, st, sp, note,
                         audio_inputs_silent(channels, frames),
                         start_ok, status),
                 st, reads_events(ps, st, sp), param, status)

----------------------------------------------------------------------------
\* The constructors of PluginInstanceHost.
Constructors == {"new", "new_graph_in", "new_graph_out"}

\* PluginInstanceHost::new: the host starts with a fresh SharedPluginState.
\* Each constructor stores a state into a local cell and then builds the host
\* with another, fresh cell, whose content is 0 (Inactive). The graph-in and
\* graph-out hosts have no main-thread plugin.
Init ==
    /\ main_thread \in BOOLEAN
    /\ state = "Inactive"
    /\ start_processing = FALSE
    /\ audio_thread = 0
    /\ param_queues = FALSE
    /\ remove_requested = FALSE
    /\ restarting = FALSE
    /\ host_request = {}
    /\ num_params \in 0..MaxParams
    /\ sibs = [s \in SibIds |-> DeadSib]
    /\ schedule = DeactivatedTask
    /\ pblock = 0
    /\ \E ctor \in IF main_thread THEN {"new"} ELSE Constructors :
            ev = Event(ctor, "", <<"Inactive">>, "no", <<>>, "none", "none")
    /\ restart_seen = FALSE
    /\ pq = PqIdle
    /\ gs = GsIdle
    /\ cb = CbIdle
    /\ eng = EngIdle
    /\ px = PxIdle

\* Writes the host fields h back.
SetHost(h) ==
    /\ state' = h.state
    /\ param_queues' = h.param_queues
    /\ audio_thread' = h.audio_thread

\* One call of activate by the graph.
DoActivate ==
    \E fail \in Fails :
        LET r == activate(HostFields, fail)
        IN  /\ SetHost(r.h)
            /\ sibs' = IF r.created THEN [sibs EXCEPT ![NextSlot] = NewSib]
                       ELSE sibs
            /\ ev' = [Event("activate", r.result, <<state>> \o r.writes, "no",
                            <<>>, "none", "none")
                         EXCEPT !.asked = r.asked, !.stored = r.stored]
            /\ restart_seen' = (restart_seen /\ ~r.created)
            /\ UNCHANGED <<extVars, main_thread, start_processing, remove_requested,
                           restarting, host_request, num_params, schedule,
                           pblock>>

\* The graph activates the plugin: one it has just added, one that is idle,
\* or (the case can_activate guards against) one that is already active.
Activate ==
    /\ ~remove_requested
    /\ state \notin {"WaitingToDrop", "DroppedAndReadyToDeactivate"}
    /\ DoActivate

\* activate called on a plugin that is being deactivated or removed: the
\* host's interface allows the call at any time.
ActivateWhileDropping ==
    /\ remove_requested
        \/ state \in {"WaitingToDrop", "DroppedAndReadyToDeactivate"}
    /\ DoActivate

ScheduleDeactivate ==
    LET r == schedule_deactivate(HostFields)
    IN  /\ SetHost(r.h)
        /\ ev' = Event("schedule_deactivate", "", <<state>> \o r.writes,
                       "no", <<>>, "none", "none")
        /\ UNCHANGED <<extVars, restart_seen, main_thread, start_processing, remove_requested,
                       restarting, host_request, num_params, sibs, schedule,
                       pblock>>

\* PluginInstanceHost::schedule_remove
ScheduleRemove ==
    LET r == schedule_deactivate(HostFields)
    IN  /\ remove_requested' = TRUE
        /\ SetHost(r.h)
        /\ ev' = Event("schedule_remove", "", <<state>> \o r.writes, "no",
                       <<>>, "none", "none")
        /\ UNCHANGED <<extVars, restart_seen, main_thread, start_processing, restarting,
                       host_request, num_params, sibs, schedule, pblock>>

\* The plugin sets a host-request flag (from any thread).
RequestHost ==
    \E f \in HostRequestFlags \ host_request :
        /\ main_thread
        /\ host_request' = host_request \cup {f}
        /\ ev' = Event("request", f, <<state>>, "no", <<>>, "none", "none")
        /\ UNCHANGED <<extVars, restart_seen, main_thread, state, start_processing, audio_thread,
                       param_queues, remove_requested, restarting,
                       num_params, sibs, schedule, pblock>>

\* One main-thread idle tick of the host.
OnIdle ==
    IF ~main_thread
    THEN /\ ev' = Event("on_idle",
                        IF remove_requested THEN "PluginReadyToRemove"
                        ELSE "Ok",
                        <<state>>, "no", <<>>, "none", "none")
         /\ UNCHANGED <<extVars, restart_seen, hostVars, sibs, schedule, pblock>>
    ELSE \E fail \in Fails :
            LET r == on_idle(HostFields, host_request, fail)
            IN  /\ SetHost(r.h)
                /\ host_request' = {}
                /\ restarting' = r.restarting
                /\ start_processing' = r.start_processing
                /\ sibs' = IF r.created
                           THEN [sibs EXCEPT ![NextSlot] = NewSib]
                           ELSE sibs
                /\ ev' = Event("on_idle", r.result, <<state>> \o r.writes,
                               IF ~r.deactivate THEN "no"
                               ELSE IF SiblingAliveInSchedule
                               THEN "sibling_alive" ELSE "yes",
                               <<>>, "none", "none")
                /\ restart_seen' =
                        ((restart_seen \/ "RESTART" \in host_request)
                            /\ ~r.created)
                /\ UNCHANGED <<extVars, main_thread, remove_requested, num_params,
                               schedule, pblock>>

\* A variant of CompiledTask that goes by the host's handle alone.
CompiledTaskByHandle ==
    IF audio_thread # 0 THEN PluginTask(audio_thread) ELSE DeactivatedTask

\* The task the graph compiler emits for the plugin: a Plugin task for an
\* Active plugin (running the sibling the host holds), a DeactivatedPlugin
\* task otherwise.
CompiledTask ==
    IF state = "Active" /\ audio_thread # 0
    THEN PluginTask(audio_thread)
    ELSE DeactivatedTask

\* The graph compiler publishes a new schedule.
Compile ==
    /\ schedule' = CompiledTask
    /\ ev' = Event("compile", "", <<state>>, "no", <<>>, "none", "none")
    /\ UNCHANGED <<extVars, restart_seen, hostVars, sibs, pblock>>

\* The calls and the contract violation of dropping the siblings in S.
RECURSIVE DropAll(_, _)
DropAll(S, acc) ==
    IF S = {} THEN acc
    ELSE LET s == CHOOSE x \in S : \A y \in S : x <= y
             calls == drop_calls(sibs[s].processing_state)
             eff == CallsEffect(sibs[s].plugin_processing, calls)
             v == IF eff.viol # "none" THEN eff.viol
                  ELSE IF eff.pp THEN "dropped_while_processing"
                  ELSE "none"
         IN  DropAll(S \ {s},
                     [calls |-> acc.calls \o calls,
                      viol |-> IF acc.viol # "none" THEN acc.viol ELSE v])

\* The main thread drains the collector: every sibling nothing refers to any
\* more is dropped.
Collect ==
    LET d == DropAll(Unreferenced, [calls |-> <<>>, viol |-> "none"])
        dropped == Unreferenced # {}
    IN  /\ sibs' = [s \in SibIds |->
                        IF s \in Unreferenced THEN DeadSib ELSE sibs[s]]
        /\ state' = IF dropped THEN "DroppedAndReadyToDeactivate" ELSE state
        /\ ev' = Event("collect", "",
                       IF dropped
                       THEN <<state, "DroppedAndReadyToDeactivate">>
                       ELSE <<state>>,
                       "no", d.calls, d.viol, "none")
        /\ UNCHANGED <<extVars, restart_seen, main_thread, start_processing, audio_thread,
                       param_queues, remove_requested, restarting,
                       host_request, num_params, schedule, pblock>>

\* What process can do for sibling s in this state, over every block input:
\* a note event or none, silent audio inputs or not, start_processing
\* succeeding or not, and every status the plugin's process may return.
ProcessOutcomes(s) ==
    {process(sibs[s].processing_state, state, start_processing, note,
             silent, start_ok, status) :
        note \in BOOLEAN, silent \in BOOLEAN, start_ok \in BOOLEAN,
        status \in ProcessStatus}

\* The process thread runs one block of the published schedule, up to the
\* end of this plugin's task or to the point where the task has started the
\* plugin and is about to write PluginState.
Block ==
    /\ pblock = 0
    /\ IF schedule.kind = "DeactivatedPlugin"
       THEN /\ ev' = Event("block", "DeactivatedPlugin", <<state>>, "no",
                           <<>>, "none", "passthrough")
            /\ UNCHANGED <<extVars, restart_seen, hostVars, sibs, pblock>>
       ELSE \E r \in ProcessOutcomes(schedule.sib) :
            LET s == schedule.sib
                eff == CallsEffect(sibs[s].plugin_processing, r.calls)
            IN  /\ pblock' = IF r.resume THEN s ELSE 0
                /\ sibs' = [sibs EXCEPT
                              ![s].processing_state = r.processing_state,
                              ![s].plugin_processing = eff.pp]
                /\ start_processing' = r.start_processing
                /\ ev' = Event("block", "Plugin", <<state>>, "no", r.calls,
                               eff.viol, r.out)
                /\ UNCHANGED <<extVars, restart_seen, main_thread, state, audio_thread,
                               param_queues, remove_requested, restarting,
                               host_request, num_params>>
    /\ UNCHANGED schedule

\* The process thread goes on after a successful start_processing: it writes
\* PluginState, calls the plugin's process and ends the block.
BlockResume ==
    /\ pblock # 0
    /\ \E status \in ProcessStatus :
        LET s == pblock
            f == finish_process(sibs[s].processing_state, status)
            eff == CallsEffect(sibs[s].plugin_processing, f.calls)
        IN  /\ state' = "Active"
            /\ sibs' = [sibs EXCEPT
                          ![s].processing_state = f.processing_state,
                          ![s].plugin_processing = eff.pp]
            /\ pblock' = 0
            /\ ev' = Event("block_resume", "Plugin", <<state, "Active">>,
                           "no", f.calls, eff.viol, f.out)
    /\ UNCHANGED <<extVars, restart_seen, main_thread, start_processing, audio_thread,
                   param_queues, remove_requested, restarting, host_request,
                   num_params, schedule>>

Next ==
    \/ Activate
    \/ ScheduleDeactivate
    \/ ScheduleRemove
    \/ RequestHost
    \/ OnIdle
    \/ Compile
    \/ Collect
    \/ Block
    \/ BlockResume

Spec == Init /\ [][Next]_vars

\* The graph's calls of the host's interface in any order, for a plugin that
\* sets no request flag.
ApiNext ==
    \/ Activate
    \/ ActivateWhileDropping
    \/ ScheduleDeactivate
    \/ ScheduleRemove
    \/ OnIdle
    \/ Compile
    \/ Collect
    \/ Block
    \/ BlockResume

ApiSpec == Init /\ [][ApiNext]_vars

\* The main loop keeps calling on_idle, compiling and collecting, and the
\* process thread keeps running blocks.
FairSpec ==
    /\ Spec
    /\ WF_vars(OnIdle)
    /\ WF_vars(Compile)
    /\ WF_vars(Collect)
    /\ WF_vars(Block)
    /\ WF_vars(BlockResume)

----------------------------------------------------------------------------
\* Parameter values set by the UI and the blocks that consume them

\* The plugin host's state machine is not involved: its variables stay as
\* constructed.
plugVars == <<hostVars, sibs, schedule, pblock, ev, restart_seen>>

HostPinned ==
    /\ main_thread = TRUE
    /\ state = "Inactive"
    /\ start_processing = FALSE
    /\ audio_thread = 0
    /\ param_queues = FALSE
    /\ remove_requested = FALSE
    /\ restarting = FALSE
    /\ host_request = {}
    /\ num_params = 0
    /\ sibs = [s \in SibIds |-> DeadSib]
    /\ schedule = DeactivatedTask
    /\ pblock = 0
    /\ ev = Event("new", "", <<"Inactive">>, "no", <<>>, "none", "none")
    /\ restart_seen = FALSE

\* An activated plugin with any set of parameters, each writable or read-only.
ParamInit ==
    /\ HostPinned
    /\ px = PxIdle
    /\ \E params \in [ParamIds -> {"absent", "writable", "readonly"}] :
            pq = PqOf(params)
    /\ gs = GsIdle
    /\ cb = CbIdle
    /\ eng = EngIdle

\* The UI calls set_value.
SetValue ==
    /\ pq.calls.nsets < MaxSets
    /\ \E p \in ParamIds, v \in Values :
        pq' = [set_value(pq, p, v) EXCEPT
                 !.calls = IF pq.params[p] = "writable"
                           THEN [want |-> [@.want EXCEPT ![p] = v],
                                 nsets |-> @.nsets + 1]
                           ELSE @,
                 !.judged = NoCalls, !.delivered = <<>>, !.how = "none",
                 !.last = [op |-> "set_value", param_id |-> p]]
    /\ UNCHANGED <<plugVars, px, gs, cb, eng>>

\* The UI calls set_mod_amount.
SetModAmount ==
    /\ \E p \in ParamIds, v \in Values :
        pq' = [set_mod_amount(pq, p, v) EXCEPT
                 !.judged = NoCalls, !.delivered = <<>>, !.how = "none",
                 !.last = [op |-> "set_mod_amount", param_id |-> p]]
    /\ UNCHANGED <<plugVars, px, gs, cb, eng>>

\* What a call of process does with the events, over every state of the
\* plugin and every block input: whether it reads the queues, and whether it
\* runs the plugin's process.
BlockKinds ==
    {LET r == process(ps, st, sp, note, silent, start_ok, status)
     IN  [reads |-> reads_events(ps, st, sp),
          ran |-> r.resume
                  \/ \E i \in 1..Len(r.calls) : r.calls[i] = "process"] :
        ps \in ProcessingState, st \in PluginState, sp \in BOOLEAN,
        note \in BOOLEAN, silent \in BOOLEAN, start_ok \in BOOLEAN,
        status \in ProcessStatus}

\* One call of PluginInstanceHostAudioThread::process, for any state of the
\* plugin and any block input: it returns before looking at the queues, or it
\* consumes them and hands in_events to the plugin's process or, when the
\* plugin is not run, to its param_flush if there is a parameter event.
ParamBlock ==
    /\ \E k \in BlockKinds :
        IF ~k.reads
        THEN pq' = [pq EXCEPT !.in_events = <<>>, !.judged = NoCalls,
                              !.delivered = <<>>, !.how = "returned",
                              !.last = NoSet]
        ELSE LET x == consume_into_event_buffer(pq)
                 has_param_in_event == x.in_events # <<>>
                 how == IF k.ran THEN "process"
                        ELSE IF has_param_in_event THEN "param_flush"
                        ELSE "nothing"
             IN  pq' = [x EXCEPT
                          !.delivered = IF how = "nothing" THEN <<>>
                                        ELSE x.in_events,
                          !.in_events = <<>>,
                          !.how = how,
                          !.judged = pq.calls,
                          !.calls = NoCalls,
                          !.last = NoSet]
    /\ UNCHANGED <<plugVars, px, gs, cb, eng>>

ParamNext ==
    \/ SetValue
    \/ SetModAmount
    \/ ParamBlock

ParamSpec == ParamInit /\ [][ParamNext]_vars

-----------------------------------------------------------------------------
\* The gesture handling of an activated plugin with parameters.

\* A bound on the activations of the plugin.
MaxActivations == 3

GestureInit ==
    /\ HostPinned
    /\ px = PxIdle
    /\ pq = PqIdle
    /\ gs = GsIdle
    /\ cb = CbIdle
    /\ eng = EngIdle

\* The call of the plugin that fills out_events in a block: its process,
\* its param_flush when the events were read and the plugin is not run, or
\* none.
BlockVias ==
    {via \in {"process", "param_flush", "none"} :
        \E k \in BlockKinds :
            /\ (via = "process") = (k.reads /\ k.ran)
            /\ via = "param_flush" => k.reads}

\* One call of PluginInstanceHostAudioThread::process: the output events are
\* handled only when the plugin's process ran; the branches that call
\* param_flush return without looking at out_events, which the next block
\* clears. The record keeps the parameters the plugin emitted a value event
\* for (emitted) and the call it emitted them from (via).
GestureBlock ==
    /\ \E via \in BlockVias, out_events \in SeqsUpTo(OutEvents, MaxOut) :
        /\ via = "none" => out_events = <<>>
        /\ gs' = [(IF via = "process"
                   THEN handle_out_events(NewBlock(gs), out_events)
                   ELSE NewBlock(gs))
                    EXCEPT !.via = via,
                           !.emitted =
                              {out_events[i].param_id :
                                  i \in {j \in 1..Len(out_events) :
                                      out_events[j].type = "ParamValue"}}]
    /\ UNCHANGED <<plugVars, px, pq, cb, eng>>

\* PluginInstanceHost::on_idle drains the Audio->UI queue.
ConsumeToMain ==
    /\ \E p \in GestureParamIds : gs.to_main_q[p].pending
    /\ gs' = [NewBlock(gs) EXCEPT
                !.to_main_q = [p \in GestureParamIds |-> NoEntry]]
    /\ UNCHANGED <<plugVars, px, pq, cb, eng>>

\* The plugin is deactivated and activated again: activate builds a new
\* sibling with an empty is_adjusting_parameter map and new queues.
Reactivate ==
    /\ gs.activations < MaxActivations
    /\ gs' = FreshGestures(gs.last_life, gs.activations + 1)
    /\ UNCHANGED <<plugVars, px, pq, cb, eng>>

GestureNext == GestureBlock \/ ConsumeToMain \/ Reactivate

GestureSpec == GestureInit /\ [][GestureNext]_vars

-----------------------------------------------------------------------------
\* The audio callback against the process thread. The engine's channel
\* counts and the stream's sample type and channel count are fixed when the
\* stream is built; the buffer length is the driver's choice at every call.

Channels == 0..MaxCh

CallbackInit ==
    /\ HostPinned
    /\ px = PxIdle
    /\ pq = PqIdle
    /\ gs = GsIdle
    /\ \E in_channels \in {0, MaxCh}, out_channels \in Channels,
          T \in SampleFormats, cpal_out_channels \in Channels :
            cb = CbOf(in_channels, out_channels, T, cpal_out_channels)
    /\ eng = EngIdle

\* The driver calls the callback of the stream with a buffer of any length.
Callback ==
    /\ \E len \in 0..MaxLen, steps \in WindowSteps :
        cb' = process_cpal_interleaved_output_only(
                  cb, cb.T, cb.cpal_out_channels, StaleBuffer(len), steps)
    /\ UNCHANGED <<plugVars, px, pq, gs, eng>>

\* Between two callbacks the process thread starts on the frames asked for.
ProcPick ==
    /\ cb.rendering = 0
    /\ cb.pending > 0
    /\ cb' = proc_pick(cb)
    /\ UNCHANGED <<plugVars, px, pq, gs, eng>>

\* Between two callbacks the process thread delivers a block, too late for
\* the callback that asked for it.
ProcDeliver ==
    /\ cb.rendering > 0
    /\ cb' = [proc_deliver(cb) EXCEPT !.written = cb.written]
    /\ UNCHANGED <<plugVars, px, pq, gs, eng>>

CallbackNext == Callback \/ ProcPick \/ ProcDeliver

CallbackSpec == CallbackInit /\ [][CallbackNext]_vars

-----------------------------------------------------------------------------
\* The engine's main thread against its requests and its process threads.

\* A bound on the edges one ModifyGraph request connects.
MaxConnect == 2

PluginIdRange == FirstPluginId..(FirstPluginId + MaxPlugins - 1)

\* The channel counts of ActivateEngineSettings: none up to the default.
DefaultChannels == 2

EngineChannels == 0..DefaultChannels

\* The edge requests of the model: from the graph input, a plugin or an
\* added plugin to the graph output, a plugin or an added plugin.
EdgeReqs ==
    [src_plugin_id : {Existing(GraphInId), Existing(FirstPluginId),
                      Added(0), Added(1)},
     dst_plugin_id : {Existing(GraphOutId), Existing(FirstPluginId),
                      Added(0), Added(1)},
     channel : {0}]

\* The ModifyGraph requests for graph g: one that adds at most one plugin
\* and connects the edges of connects, one that removes a plugin, or one
\* that disconnects an edge.
ModifyGraphRequests(g, connects) ==
    [add : {n \in 0..1 : g.next_id + n <= FirstPluginId + MaxPlugins},
     remove : {<<>>}, disconnect : {<<>>}, connect : connects]
    \cup [add : {0}, remove : {<<id>> : id \in g.plugins},
          disconnect : {<<>>}, connect : {<<>>}]
    \cup [add : {0}, remove : {<<>>},
          disconnect : {<<e>> : e \in g.edges}, connect : {<<>>}]

\* Requests that wire one plugin between the graph's input and output.
WiringRequests ==
    {<<>>,
     <<[src_plugin_id |-> Existing(GraphInId), dst_plugin_id |-> Added(0),
        channel |-> 0]>>,
     <<[src_plugin_id |-> Added(0), dst_plugin_id |-> Existing(GraphOutId),
        channel |-> 0]>>,
     <<[src_plugin_id |-> Existing(FirstPluginId),
        dst_plugin_id |-> Existing(GraphOutId), channel |-> 0]>>}

\* The save states of the model.
SaveStates ==
    {NoSaveState,
     [plugins |-> {FirstPluginId}, edges |-> {}],
     [plugins |-> {FirstPluginId},
      edges |-> {[src |-> GraphInId, dst |-> FirstPluginId, ch |-> 0]}]}

EngineInit ==
    /\ HostPinned
    /\ px = PxIdle
    /\ pq = PqIdle
    /\ gs = GsIdle
    /\ cb = CbIdle
    /\ eng = EngIdle

ActivateEngine ==
    /\ ~eng.panicked
    /\ eng.audio_graph.some \/ Len(eng.threads) < MaxThreads
    /\ \E num_audio_in_channels \in EngineChannels,
          num_audio_out_channels \in EngineChannels :
        eng' = activate_engine(eng, num_audio_in_channels,
                               num_audio_out_channels, FALSE)
    /\ UNCHANGED <<plugVars, px, pq, gs, cb>>

DeactivateEngine ==
    /\ ~eng.panicked
    /\ eng' = deactivate_engine(eng)
    /\ UNCHANGED <<plugVars, px, pq, gs, cb>>

ModifyGraph ==
    /\ ~eng.panicked
    /\ \E req \in ModifyGraphRequests(eng.audio_graph, WiringRequests),
          fail \in BOOLEAN :
        eng' = modify_graph(eng, req, fail)
    /\ UNCHANGED <<plugVars, px, pq, gs, cb>>

RestoreFromSaveState ==
    /\ ~eng.panicked
    /\ \E save_state \in SaveStates, fail \in BOOLEAN :
        eng' = restore_audio_graph_from_save_state(eng, save_state, fail)
    /\ UNCHANGED <<plugVars, px, pq, gs, cb>>

RequestLatestSaveState ==
    /\ ~eng.panicked
    /\ eng' = request_latest_save_state(eng)
    /\ UNCHANGED <<plugVars, px, pq, gs, cb>>

UpdateTempoMap ==
    /\ ~eng.panicked
    /\ eng.tempo_map_shared.version < MaxVersion
    /\ eng' = update_tempo_map(eng)
    /\ UNCHANGED <<plugVars, px, pq, gs, cb>>

PluginRequest ==
    /\ ~eng.panicked
    /\ \E instance_id \in PluginIdRange \cup {FirstPluginId + MaxPlugins},
          request \in {"ShowGui", "CloseGui"} :
        eng' = plugin_request(eng, instance_id, request)
    /\ UNCHANGED <<plugVars, px, pq, gs, cb>>

\* The end of a turn of run: on_idle of the graph may ask for a recompile.
EngineIdle ==
    /\ ~eng.panicked
    /\ \E recompile \in BOOLEAN, fail \in BOOLEAN :
        eng' = idle_recompile(eng, recompile, fail)
    /\ UNCHANGED <<plugVars, px, pq, gs, cb>>

PtBeginBlock ==
    /\ \E t \in 1..Len(eng.threads) :
        /\ eng.threads[t].alive
        /\ ~eng.threads[t].in_block
        /\ eng.threads[t].run
        /\ eng' = pt_begin_block(eng, t)
    /\ UNCHANGED <<plugVars, px, pq, gs, cb>>

PtEndBlock ==
    /\ \E t \in 1..Len(eng.threads) :
        /\ eng.threads[t].in_block
        /\ eng' = pt_end_block(eng, t)
    /\ UNCHANGED <<plugVars, px, pq, gs, cb>>

PtExit ==
    /\ \E t \in 1..Len(eng.threads) :
        /\ eng.threads[t].alive
        /\ ~eng.threads[t].in_block
        /\ ~eng.threads[t].run
        /\ eng' = pt_exit(eng, t)
    /\ UNCHANGED <<plugVars, px, pq, gs, cb>>

EngineNext ==
    \/ ActivateEngine
    \/ DeactivateEngine
    \/ ModifyGraph
    \/ RestoreFromSaveState
    \/ RequestLatestSaveState
    \/ UpdateTempoMap
    \/ PluginRequest
    \/ EngineIdle
    \/ PtBeginBlock
    \/ PtEndBlock
    \/ PtExit

EngineSpec == EngineInit /\ [][EngineNext]_vars

-----------------------------------------------------------------------------
\* One ModifyGraph request against an active engine.

\* A bound on the plugins one ModifyGraph request adds.
MaxAdd == 2

\* An engine activated with the default settings, and the same engine
\* after a request that wired a plugin between input and output.
ActiveEngine ==
    activate_engine(EngIdle, DefaultChannels, DefaultChannels, FALSE)

WiredEngine ==
    modify_graph(ActiveEngine,
        [add |-> 1, remove |-> <<>>, disconnect |-> <<>>,
         connect |-> <<[src_plugin_id |-> Existing(GraphInId),
                        dst_plugin_id |-> Added(0), channel |-> 0],
                       [src_plugin_id |-> Added(0),
                        dst_plugin_id |-> Existing(GraphOutId),
                        channel |-> 0]>>],
        FALSE)

ModifyInit ==
    /\ HostPinned
    /\ px = PxIdle
    /\ pq = PqIdle
    /\ gs = GsIdle
    /\ cb = CbIdle
    /\ eng \in {Handling(ActiveEngine, "new", TRUE),
                Handling(WiredEngine, "new", TRUE)}

\* The first ModifyGraph request the engine gets: any of the edge requests,
\* up to MaxAdd plugins added.
ModifyGraphOnce ==
    /\ eng.op = "new"
    /\ \E add \in 0..MaxAdd,
          remove \in {<<>>} \cup {<<id>> : id \in eng.audio_graph.plugins},
          disconnect \in {<<>>} \cup {<<e>> : e \in eng.audio_graph.edges},
          connect \in SeqsUpTo(EdgeReqs, MaxConnect),
          fail \in BOOLEAN :
        eng' = modify_graph(eng,
                    [add |-> add, remove |-> remove,
                     disconnect |-> disconnect, connect |-> connect],
                    fail)
    /\ UNCHANGED <<plugVars, px, pq, gs, cb>>

ModifyNext == ModifyGraphOnce

ModifySpec == ModifyInit /\ [][ModifyNext]_vars

----------------------------------------------------------------------------
\* One block of a DeactivatedPlugin task

\* Sequences of distinct elements of S.
Distinct(S) ==
    {q \in SeqsUpTo(S, Cardinality(S)) :
        \A i \in 1..Len(q) : \A j \in 1..Len(q) : q[i] = q[j] => i = j}

\* An event buffer that is None, or one that holds an event of an earlier
\* block.
EventBuffers == {NoBuffer, <<"event">>}

\* The buffers that are inputs, and those that are outputs, of the pairs of
\* audio_through.
InputsOf(audio_through) ==
    {audio_through[i][1] : i \in 1..Len(audio_through)}

OutputsOf(audio_through) ==
    {audio_through[i][2] : i \in 1..Len(audio_through)}

\* The pass-through pairs the compiler builds: every output is a buffer of
\* its own, written by one pair; an input may feed several pairs.
ThroughLists ==
    {q \in SeqsUpTo(BufferIds \X BufferIds, MaxBuffers - 1) :
        /\ Cardinality(OutputsOf(q)) = Len(q)
        /\ InputsOf(q) \cap OutputsOf(q) = {}}

\* The tasks the compiler builds over the buffers: the extra outputs are
\* buffers no pair reads or writes.
DeactivatedPluginTasks ==
    UNION {[audio_through : {q},
            extra_audio_out :
                Distinct(BufferIds \ (InputsOf(q) \cup OutputsOf(q))),
            automation_out_buffer : EventBuffers,
            note_out_buffers : SeqsUpTo(EventBuffers, MaxNotePorts)] :
           q \in ThroughLists}

TaskInit ==
    /\ HostPinned
    /\ pq = PqIdle
    /\ gs = GsIdle
    /\ cb = CbIdle
    /\ eng = EngIdle
    /\ \E task \in DeactivatedPluginTasks, frames \in 0..MaxFrames,
          constant \in [BufferIds -> BOOLEAN] :
        px = [op |-> "scheduled", task |-> task, frames |-> frames,
              bufs |-> [b \in BufferIds |-> SharedBuffer(b, constant[b])]]

\* The process thread runs the task for one block.
DeactivatedPluginBlock ==
    /\ px.op = "scheduled"
    /\ px' = [op |-> "DeactivatedPlugin", task |-> px.task,
              frames |-> px.frames, before |-> px.bufs,
              after |-> deactivated_plugin_task_process(px.task, px.frames,
                                                        px.bufs)]
    /\ UNCHANGED <<plugVars, pq, gs, cb, eng>>

TaskNext == DeactivatedPluginBlock

TaskSpec == TaskInit /\ [][TaskNext]_vars

----------------------------------------------------------------------------
\* A port's mask synced to its buffers and back

\* The most channels of an audio port.
MaxPortCh == 3

\* A port as AudioPortBufferMut::new builds it, of f32 buffers and up to
\* MaxPortCh channels, holding any mask over its channels, its buffers
\* flagged in any way.
MaskInit ==
    /\ HostPinned
    /\ pq = PqIdle
    /\ gs = GsIdle
    /\ cb = CbIdle
    /\ eng = EngIdle
    /\ \E n \in 1..MaxPortCh :
        \E constant_mask \in 0..(Shl(n) - 1), flags \in [1..n -> BOOLEAN] :
            px = [op |-> "port", T |-> "F32", constant_mask |-> constant_mask,
                  flags |-> flags, synced |-> FALSE, mask_before |-> 0]

\* AudioPortBufferMut::set_constant_mask: the plugin reports its output.
SetConstantMask ==
    /\ px.op # "none"
    /\ \E mask \in 0..(Shl(Len(px.flags)) - 1) :
        px' = [px EXCEPT !.op = "set_constant_mask", !.constant_mask = mask,
                         !.synced = FALSE]
    /\ UNCHANGED <<plugVars, pq, gs, cb, eng>>

\* After the plugin's process: the output port's mask goes to its buffers.
SyncToBuffers ==
    /\ px.op # "none"
    /\ px' = [px EXCEPT
                !.op = "sync_constant_mask_to_buffers",
                !.flags = sync_constant_mask_to_buffers(px.T,
                                px.constant_mask, px.flags),
                !.synced = TRUE,
                !.mask_before = px.constant_mask]
    /\ UNCHANGED <<plugVars, pq, gs, cb, eng>>

\* Before the next plugin's process: the mask of the port reading the same
\* buffers is taken from them.
SyncFromBuffers ==
    /\ px.op # "none"
    /\ px' = [px EXCEPT
                !.op = "sync_constant_mask_from_buffers",
                !.constant_mask =
                    sync_constant_mask_from_buffers(px.flags, 0)]
    /\ UNCHANGED <<plugVars, pq, gs, cb, eng>>

MaskNext ==
    \/ SetConstantMask
    \/ SyncToBuffers
    \/ SyncFromBuffers

MaskSpec == MaskInit /\ [][MaskNext]_vars

----------------------------------------------------------------------------
\* Pushing events into an EventQueue, also past its capacity

QueueInit ==
    /\ HostPinned
    /\ pq = PqIdle
    /\ gs = GsIdle
    /\ cb = CbIdle
    /\ eng = EngIdle
    /\ \E type \in QueueTypes, capacity \in 0..MaxCapacity :
        px = [op |-> "new", q |-> EventQueueNew(type, capacity),
              before |-> EventQueueNew(type, capacity), warned |-> FALSE]

QueuePush ==
    /\ px.op # "none"
    /\ Len(px.q.events) < MaxQueueLen
    /\ \E event \in QueueEvents,
          grown \in (Len(px.q.events) + 1)..(MaxQueueLen + 1) :
        LET r == push(px.q, event, grown)
        IN  px' = [op |-> "push", q |-> r.q, before |-> px.q,
                   warned |-> r.warned, event |-> event]
    /\ UNCHANGED <<plugVars, pq, gs, cb, eng>>

QueuePop ==
    /\ px.op # "none"
    /\ px' = [op |-> "pop", q |-> pop(px.q), before |-> px.q,
              warned |-> FALSE]
    /\ UNCHANGED <<plugVars, pq, gs, cb, eng>>

QueueClear ==
    /\ px.op # "none"
    /\ px' = [op |-> "clear", q |-> clear(px.q), before |-> px.q,
              warned |-> FALSE]
    /\ UNCHANGED <<plugVars, pq, gs, cb, eng>>

QueueNext ==
    \/ QueuePush
    \/ QueuePop
    \/ QueueClear

QueueSpec == QueueInit /\ [][QueueNext]_vars

-----------------------------------------------------------------------------
\* Silence checks on audio ports

\* The buffers of the model: samples 0 or 1; a buffer flagged constant holds
\* one value in all its frames.
SilenceBuffers ==
    {b \in [data : [1..MaxFrames -> {0, 1}], constant : BOOLEAN] :
        b.constant => \A k \in 1..MaxFrames : b.data[k] = b.data[1]}

\* The most channels of a port checked for silence.
MaxSilentCh == 2

\* A port as AudioPortBuffer::new builds it: mask 0 over any buffers.
SilenceInit ==
    /\ HostPinned
    /\ pq = PqIdle
    /\ gs = GsIdle
    /\ cb = CbIdle
    /\ eng = EngIdle
    /\ \E n \in 1..MaxSilentCh : \E channels \in [1..n -> SilenceBuffers] :
            px = [op |-> "port", channels |-> channels, constant_mask |-> 0,
                  frames |-> 0, result |-> FALSE]

\* The host syncs the port's mask from its buffers.
SilenceSync ==
    /\ px' = [px EXCEPT
                !.op = "sync_constant_mask_from_buffers",
                !.constant_mask =
                    sync_constant_mask_from_buffers(FlagsOf(px.channels), 0)]
    /\ UNCHANGED <<plugVars, pq, gs, cb, eng>>

\* is_silent is asked for the first frames frames of a block.
IsSilent ==
    /\ \E frames \in 1..MaxFrames :
        px' = [px EXCEPT
                 !.op = "is_silent", !.frames = frames,
                 !.result = is_silent(px.channels, px.constant_mask, frames)]
    /\ UNCHANGED <<plugVars, pq, gs, cb, eng>>

SilenceNext == SilenceSync \/ IsSilent

SilenceSpec == SilenceInit /\ [][SilenceNext]_vars

-----------------------------------------------------------------------------
\* The blocks of one sibling, woken and deactivated by the main thread

\* The sibling as activate builds it, in an Active plugin, before its first
\* block.
ProcessInit ==
    /\ HostPinned
    /\ pq = PqIdle
    /\ gs = GsIdle
    /\ cb = CbIdle
    /\ eng = EngIdle
    /\ px = [op |-> "new", processing_state |-> "WaitingForStart",
             state |-> "Active", start_processing |-> FALSE,
             before |-> "WaitingForStart", woken |-> FALSE,
             state_before |-> "Active",
             note |-> FALSE, param |-> FALSE, channels |-> <<>>,
             frames |-> 0, start_ok |-> FALSE,
             calls |-> <<>>, out |-> "none", reads |-> FALSE,
             handed |-> "none", in_events |-> <<>>]

\* The audio inputs of a block: buffers that hold one value from their
\* second frame on.
BlockBuffers ==
    {b \in SilenceBuffers :
        \A k \in 2..MaxFrames : b.data[k] = b.data[MaxFrames]}

\* The process thread runs one block of the sibling, with any input.
ProcessBlock ==
    /\ \E note \in BOOLEAN, param \in BOOLEAN, start_ok \in BOOLEAN,
          status \in ProcessStatus, buf \in BlockBuffers :
        LET r == process_block(px.processing_state, px.state,
                               px.start_processing, note, param, <<buf>>,
                               MaxFrames, start_ok, status)
        IN  px' = [op |-> "process",
                   processing_state |-> r.processing_state,
                   state |-> r.state,
                   start_processing |-> r.start_processing,
                   before |-> px.processing_state,
                   woken |-> px.start_processing,
                   state_before |-> px.state,
                   note |-> note, param |-> param, channels |-> <<buf>>,
                   frames |-> MaxFrames, start_ok |-> start_ok,
                   calls |-> r.calls, out |-> r.out, reads |-> r.reads,
                   handed |-> r.handed, in_events |-> r.in_events]
    /\ UNCHANGED <<plugVars, pq, gs, cb, eng>>

\* on_idle with a PROCESS request on an Active plugin: the wake request.
WakeRequest ==
    /\ px.state = "Active"
    /\ px' = [px EXCEPT !.op = "wake", !.start_processing = TRUE]
    /\ UNCHANGED <<plugVars, pq, gs, cb, eng>>

\* schedule_deactivate on the Active plugin: the sibling's later blocks see
\* WaitingToDrop until the schedule that holds it is replaced.
DeactivateRequest ==
    /\ px.state = "Active"
    /\ px' = [px EXCEPT !.op = "schedule_deactivate",
                        !.state = "WaitingToDrop"]
    /\ UNCHANGED <<plugVars, pq, gs, cb, eng>>

ProcessNext == ProcessBlock \/ WakeRequest \/ DeactivateRequest

ProcessSpec == ProcessInit /\ [][ProcessNext]_vars

----------------------------------------------------------------------------
\* The transition table of PluginState
TransitionTable ==
    {<<"Inactive", "Active">>, <<"Inactive", "InactiveWithError">>,
     <<"InactiveWithError", "Inactive">>, <<"Active", "WaitingToDrop">>,
     <<"WaitingToDrop", "DroppedAndReadyToDeactivate">>,
     <<"DroppedAndReadyToDeactivate", "Inactive">>}

\* C1: every change of PluginState, by any thread, is a transition of the
\* table: each value stored differs from the value it replaces only by a
\* pair of the table.
C1_TransitionsFollowTable ==
    \A i \in 1..(Len(ev.writes) - 1) :
        \/ ev.writes[i] = ev.writes[i + 1]
        \/ <<ev.writes[i], ev.writes[i + 1]>> \in TransitionTable

\* C2: the process thread never changes PluginState: after a step of a block
\* the state is what it was before, so a WaitingToDrop stored by the main
\* thread is never overwritten by the process thread.
C2_ProcessThreadOnlyReadsState ==
    ev.op \in {"block", "block_resume"} =>
        \A i \in 1..Len(ev.writes) : ev.writes[i] = ev.writes[1]

\* C3: the plugin's deactivate is called only by an on_idle that observes
\* DroppedAndReadyToDeactivate, that on_idle then stores Inactive, and no
\* sibling of the plugin is alive in a schedule at that moment.
C3_DeactivateOnlyAfterDrop ==
    ev.deact # "no" =>
        /\ ev.op = "on_idle"
        /\ ev.writes[1] = "DroppedAndReadyToDeactivate"
        /\ Len(ev.writes) >= 2 /\ ev.writes[2] = "Inactive"
        /\ ev.deact = "yes"

\* C4: start_processing and stop_processing alternate: stop_processing is
\* called only on a plugin that is processing, start_processing only on one
\* that is not, and a started plugin has been stopped when its sibling is
\* dropped.
C4_StartStopAlternate == ev.viol = "none"

\* C5: once schedule_remove was called, some on_idle returns
\* PluginReadyToRemove.
C5_RemoveLeadsToReadyToRemove ==
    remove_requested ~>
        (ev.op = "on_idle" /\ ev.result = "PluginReadyToRemove")

\* C6: a RESTART request on a plugin that is not being removed leads to an
\* on_idle that returns PluginActivated or PluginFailedToActivate.
C6_RestartLeadsToReactivation ==
    ([]~remove_requested) =>
        (("RESTART" \in host_request) ~>
            (/\ ev.op = "on_idle"
             /\ ev.result \in {"PluginActivated", "PluginFailedToActivate"}))

\* C7: an on_idle that fetches a PROCESS request of an Active plugin whose
\* sibling is Stopped sets start_processing, and the next block of that plugin
\* which finds the flag set clears it and calls start_processing.
C7_WakeRequestNotLost ==
    /\ [][(/\ main_thread
           /\ host_request = {"PROCESS"}
           /\ host_request' = {}
           /\ state = "Active"
           /\ ~remove_requested
           /\ audio_thread # 0
           /\ sibs[audio_thread].processing_state = "Stopped")
          => start_processing']_vars
    /\ [][(/\ ev'.op = "block"
           /\ ev'.result = "Plugin"
           /\ start_processing
           /\ state = "Active"
           /\ sibs[schedule.sib].processing_state = "Stopped")
          => (/\ ~start_processing'
              /\ ev'.calls # <<>>
              /\ ev'.calls[1] \in {"start_processing_ok",
                                   "start_processing_err"})]_vars

\* C8 (as claimed): whenever activate returns an error, PluginState is
\* InactiveWithError afterwards and the call created no sibling and no
\* parameter queue.
C8_AnyErrorMarksInactiveWithError ==
    [][(ev'.op = "activate" /\ ev'.result \in ActivateErrors)
          => (/\ state' = "InactiveWithError"
              /\ sibs' = sibs
              /\ audio_thread' = audio_thread
              /\ param_queues' = param_queues)]_vars

\* C8 (amended): an error the plugin caused leaves PluginState
\* InactiveWithError, NotLoaded and AlreadyActive leave it as it was, and no
\* failing activate (called directly or by on_idle) creates a sibling or a
\* parameter queue.
C8_ErrorsAmended ==
    [][/\ (ev'.op = "activate" /\ ev'.result \in PluginSideErrors)
            => state' = "InactiveWithError"
       /\ (ev'.op = "activate"
            /\ ev'.result \in {"NotLoaded", "AlreadyActive"})
            => state' = state
       /\ (ev'.op = "activate" /\ ev'.result \in ActivateErrors)
            => (/\ sibs' = sibs
                /\ audio_thread' = audio_thread
                /\ param_queues' = param_queues)
       /\ (ev'.op = "on_idle" /\ ev'.result = "PluginFailedToActivate")
            => (/\ state' = "InactiveWithError"
                /\ sibs' = sibs
                /\ audio_thread' = audio_thread
                /\ ~param_queues')]_vars

C8_Witness ==
    /\ ev.op = "activate"
    /\ ev.result = "PluginFailedToGetParamValue"
    /\ ev.writes = <<"Inactive", "InactiveWithError">>
    /\ state = "InactiveWithError"

\* C9: a block that runs the Plugin task of a plugin in WaitingToDrop passes
\* the input audio through to the outputs and does not run the plugin.
C9_WaitingToDropPassesThrough ==
    (/\ ev.op = "block"
     /\ ev.result = "Plugin"
     /\ ev.writes[1] = "WaitingToDrop")
        => ev.out = "passthrough"

ValueEventsFor(events, p) ==
    SelectSeq(events, LAMBDA e : e.type = "ParamValue" /\ e.param_id = p)

C12_GestureTokensAlternate ==
    /\ ~gs.rej_changed
    /\ ~gs.rep_life
    /\ ~gs.first_end

\* C12 as amended: events against the flag change nothing, and the tokens
\* pushed for one parameter alternate, starting with begin, between one
\* activation of the plugin and the next.
C12_GestureTokensAlternatePerActivation ==
    /\ ~gs.rej_changed
    /\ ~gs.rep_act
    /\ ~gs.first_end
    /\ \A p \in GestureParamIds :
            gs.is_adjusting[p] <=> gs.last_act[p] = "begin"

C12_Witness ==
    /\ gs.rejected >= 1
    /\ gs.accepted >= 1
    /\ gs.activations = 2
    /\ \E p \in GestureParamIds : gs.last_life[p] = "end"

\* The samples of the device buffer the last callback was given.
AllZero == \A j \in 1..Len(cb.out) : cb.out[j] = from_f32(cb.T, 0)

\* C13: a callback whose polling ends without a full block returns a buffer
\* of zeros, and the callback after it returns the block the process thread
\* wrote whenever the process thread wrote a full block while it polled.
C13_UnderrunZerosThenRecovers ==
    /\ cb.result = "underrun" => AllZero
    /\ (/\ cb.prev_result = "underrun"
        /\ cb.result \in {"read", "underrun"}
        /\ cb.written >= cb.total_frames * cb.out_channels)
       => /\ cb.result = "read"
          /\ Len(cb.slice_1) + Len(cb.slice_2)
                = cb.total_frames * cb.out_channels
          /\ \A j \in 1..(cb.total_frames * cb.cpal_out_channels) :
                cb.out[j] # Stale

C13_Witness ==
    /\ cb.prev_result = "underrun"
    /\ cb.result = "read"
    /\ cb.written >= cb.total_frames * cb.out_channels
    /\ cb.out_channels > 0
    /\ cb.in_channels > 0

\* C14: after every invocation of the audio callback every sample of the
\* device buffer has been assigned, whatever the buffer's length and the
\* channel counts.
C14_EverySampleAssigned ==
    cb.result # "none" => \A j \in 1..Len(cb.out) : cb.out[j] # Stale

\* C15: when a full chunk was read and the device's channel count differs
\* from the engine's, the device sample of frame i and channel c is the
\* engine's sample of frame i and channel c for c below the engine's channel
\* count and zero for the other channels, also for a chunk in two slices.
C15_ChannelsMappedByFrame ==
    (cb.result = "read" /\ cb.cpal_out_channels # cb.out_channels) =>
        LET chunk == cb.slice_1 \o cb.slice_2
        IN  \A i \in 0..(cb.total_frames - 1) :
            \A c \in 0..(cb.cpal_out_channels - 1) :
                cb.out[(i * cb.cpal_out_channels) + c + 1] =
                    IF c < cb.out_channels
                    THEN from_f32(cb.T, chunk[(i * cb.out_channels) + c + 1])
                    ELSE from_f32(cb.T, 0)

C15_Witness ==
    /\ cb.result = "read"
    /\ cb.cpal_out_channels = 1
    /\ cb.out_channels = 2
    /\ cb.total_frames >= 2
    /\ cb.slice_1 # <<>>
    /\ cb.slice_2 # <<>>
    /\ cb.T = "i16"

\* The requests that need a graph.
GraphRequests ==
    {"DeactivateEngine", "ModifyGraph", "RestoreFromSaveState",
     "RequestLatestSaveState"}

\* Whether request op, for plugin target if it is a Plugin request, is
\* invalid for engine e.
InvalidRequest(e, op, target) ==
    \/ op = "ActivateEngine" /\ e.audio_graph.some
    \/ op \in GraphRequests /\ ~e.audio_graph.some
    \/ op = "Plugin" /\ (~e.audio_graph.some
                          \/ target \notin e.audio_graph.plugins)

\* C16: a request that is invalid for the engine's activation state, or a
\* Plugin request for an id the graph does not hold, emits no event, calls
\* nothing, leaves graph, process-thread flag and tempo-map cell as they
\* were, and does not panic.
C16_InvalidRequestsIgnored ==
    [][InvalidRequest(eng, eng'.op, eng'.target) =>
            /\ eng'.events = <<>>
            /\ eng'.trace = <<>>
            /\ eng'.audio_graph = eng.audio_graph
            /\ eng'.run_process_thread = eng.run_process_thread
            /\ eng'.threads = eng.threads
            /\ eng'.tempo_map_shared = eng.tempo_map_shared
            /\ ~eng'.panicked]_vars

C16_Witness ==
    /\ eng.op = "Plugin"
    /\ ~eng.valid
    /\ eng.audio_graph.plugins # {}
    /\ eng.target \notin eng.audio_graph.plugins
    /\ eng.tempo_map_shared.version > 0

\* The EngineDeactivated(EngineCrashed) events among events.
CrashEvents(events) ==
    SelectSeq(events, LAMBDA x : x.type = "EngineDeactivated"
                                  /\ x.info = "EngineCrashed")

\* C17: a failed compile emits exactly one EngineDeactivated(EngineCrashed)
\* without save state, leaves the engine without graph and with the process
\* thread told to stop; until the next activation graph requests are ignored,
\* and ActivateEngine is refused only while a graph exists.
C17_CompileFailureDeactivates ==
    LET crashes == CrashEvents(eng.events)
    IN  /\ Len(crashes) <= 1
        /\ Len(crashes) = 1 =>
                /\ crashes[1].save_state = NoSaveState
                /\ eng.crashed
                /\ \A t \in 1..Len(eng.threads) : ~eng.threads[t].run
        /\ eng.crashed =>
                /\ ~eng.audio_graph.some
                /\ eng.run_process_thread = 0
                /\ eng.process_thread_handle = 0
        /\ (eng.crashed /\ Len(crashes) = 0 /\ eng.op \in GraphRequests) =>
                /\ ~eng.valid
                /\ eng.events = <<>>
        /\ (eng.op = "ActivateEngine" /\ ~eng.valid) => eng.audio_graph.some

C17_Witness ==
    /\ eng.crashed
    /\ eng.op = "ModifyGraph"
    /\ ~eng.valid
    /\ \E t \in 1..Len(eng.threads) : eng.threads[t].in_block

\* C18: ActivateEngine on a deactivated engine, whatever the channel counts,
\* does not panic, leaves a graph of the two endpoints, starts the process
\* thread and emits exactly one EngineActivated.
C18_ActivateEngineSucceeds ==
    (eng.op = "ActivateEngine" /\ eng.valid) =>
        /\ ~eng.panicked
        /\ eng.audio_graph.some
        /\ eng.audio_graph.plugins = {}
        /\ eng.run_process_thread # 0
        /\ Len(eng.events) = 1
        /\ eng.events[1].type = "EngineActivated"

\* C19: when DeactivateEngine has emitted its one
\* EngineDeactivated(DeactivatedGracefully), the graph is cleared and no
\* process thread is executing a block.
C19_DeactivateStopsThreadBeforeEvent ==
    (eng.op = "DeactivateEngine" /\ eng.valid) =>
        /\ Len(eng.events) = 1
        /\ eng.events[1].type = "EngineDeactivated"
        /\ eng.events[1].info = "DeactivatedGracefully"
        /\ ~eng.audio_graph.some
        /\ \A t \in 1..Len(eng.threads) : ~eng.threads[t].in_block

\* The place of a call in the order of modify_graph.
PhaseOf(call) ==
    CASE call = "disconnect_edge" -> 1
      [] call = "remove_plugin_instances" -> 2
      [] call = "add_new_plugin_instance" -> 3
      [] call = "connect_edge" -> 4
      [] call = "compile" -> 5
      [] OTHER -> 6

Count(seq, x) == Cardinality({i \in 1..Len(seq) : seq[i] = x})

\* Whether an endpoint of an edge request names an added plugin that the
\* request with add added plugins does not have.
OutOfRange(id_req, add) == id_req.kind = "Added" /\ id_req.n >= add

\* The plugin an endpoint names, Added(i) being the i-th plugin added.
Named(id_req, new_plugin_ids) ==
    IF id_req.kind = "Existing" THEN id_req.n
    ELSE new_plugin_ids[id_req.n + 1]

\* C20: a ModifyGraph request on an active engine disconnects, removes,
\* adds and connects in that order, compiles once and then emits one
\* AudioGraphModified; an edge naming an added plugin out of range is
\* skipped, every other edge is offered to the graph, and an edge the graph
\* accepted joins the plugins its endpoints name, Added(i) being the i-th
\* plugin the request added.
C20_ModifyGraphInOrder ==
    (eng.op = "ModifyGraph" /\ eng.valid) =>
        /\ \A i \in 1..Len(eng.trace) : \A j \in i..Len(eng.trace) :
                PhaseOf(eng.trace[i]) <= PhaseOf(eng.trace[j])
        /\ Count(eng.trace, "disconnect_edge") = Len(eng.req.disconnect)
        /\ Count(eng.trace, "remove_plugin_instances") = 1
        /\ Count(eng.trace, "add_new_plugin_instance") = eng.req.add
        /\ Count(eng.trace, "compile") = 1
        /\ Count(eng.trace, "AudioGraphModified") = 1
        /\ Count(eng.events,
                 EngineEvent("AudioGraphModified", "", NoSaveState)) = 1
        /\ Len(eng.new_plugin_ids) = eng.req.add
        /\ \A i \in 1..Len(eng.new_plugin_ids) :
                /\ eng.audio_graph.some =>
                        eng.new_plugin_ids[i] \in eng.audio_graph.plugins
                /\ \A j \in 1..(i - 1) :
                        eng.new_plugin_ids[j] < eng.new_plugin_ids[i]
        /\ Len(eng.outcomes) = Len(eng.req.connect)
        /\ \A k \in 1..Len(eng.outcomes) :
            LET edge == eng.req.connect[k]
                skipped == \/ OutOfRange(edge.src_plugin_id, eng.req.add)
                           \/ OutOfRange(edge.dst_plugin_id, eng.req.add)
            IN  /\ eng.outcomes[k] = "out_of_bounds" <=> skipped
                /\ (eng.outcomes[k] = "connected" /\ eng.audio_graph.some) =>
                        [src |-> Named(edge.src_plugin_id,
                                       eng.new_plugin_ids),
                         dst |-> Named(edge.dst_plugin_id,
                                       eng.new_plugin_ids),
                         ch |-> edge.channel] \in eng.audio_graph.edges
        /\ Count(eng.trace, "connect_edge")
                = Len(eng.outcomes) - Count(eng.outcomes, "out_of_bounds")

C20_Witness ==
    /\ eng.op = "ModifyGraph"
    /\ eng.valid
    /\ eng.req.add = 1
    /\ Len(eng.req.remove) = 1
    /\ Len(eng.req.disconnect) = 1
    /\ Len(eng.outcomes) = 2
    /\ eng.outcomes[1] = "out_of_bounds"
    /\ eng.outcomes[2] = "connected"
    /\ eng.req.connect[2].dst_plugin_id = Added(0)
    /\ eng.audio_graph.some

\* C21: a sibling is destroyed only by the main thread draining the
\* collector, and only when neither the published schedule nor the block
\* the process thread is executing refers to it; the destructor's store of
\* DroppedAndReadyToDeactivate is made by no other step, and the block in
\* flight goes on with its sibling.
C21_DestroyedOnlyByCollector ==
    [][/\ \A s \in SibIds :
            (sibs[s].alive /\ ~sibs'[s].alive) =>
                /\ ev'.op = "collect"
                /\ pblock # s
                /\ pblock' = pblock
                /\ ~(schedule.kind = "Plugin" /\ schedule.sib = s)
                /\ audio_thread # s
       /\ \A i \in 2..Len(ev'.writes) :
            ev'.writes[i] = "DroppedAndReadyToDeactivate" =>
                ev'.op = "collect"
       /\ (pblock' # 0) => sibs'[pblock'].alive]_vars

\* The collector was drained while only the block in flight referred to the
\* sibling, and a sibling has been destroyed by the collector.
C21_Witness ==
    /\ ev.op = "collect"
    /\ pblock # 0
    /\ sibs[pblock].alive
    /\ audio_thread # pblock
    /\ schedule.kind = "DeactivatedPlugin"

\* C22: after one block of a DeactivatedPlugin task every pass-through
\* output holds the first frames samples and the constant flag of its input,
\* every extra audio output holds zero in its first frames samples, the
\* automation-out buffer and every note-out buffer are empty, and every
\* input buffer is as it was.
C22_DeactivatedTaskPassesThrough ==
    px.op = "DeactivatedPlugin" =>
        LET t == px.task
            bufs == px.after.bufs
        IN  /\ \A i \in 1..Len(t.audio_through) :
                LET in_buf == t.audio_through[i][1]
                    out_buf == t.audio_through[i][2]
                IN  /\ \A k \in 1..px.frames :
                            bufs[out_buf].data[k] = px.before[in_buf].data[k]
                    /\ bufs[out_buf].constant = px.before[in_buf].constant
                    /\ bufs[in_buf] = px.before[in_buf]
            /\ \A i \in 1..Len(t.extra_audio_out) :
                \A k \in 1..px.frames : bufs[t.extra_audio_out[i]].data[k] = 0
            /\ px.after.automation_out_buffer \in {NoBuffer, <<>>}
            /\ \A p \in 1..Len(t.note_out_buffers) :
                px.after.note_out_buffers[p] \in {NoBuffer, <<>>}
            /\ Len(px.after.note_out_buffers) = Len(t.note_out_buffers)

C22_Witness ==
    /\ px.op = "DeactivatedPlugin"
    /\ Len(px.task.audio_through) = 2
    /\ px.task.audio_through[1][1] = px.task.audio_through[2][1]
    /\ px.before[px.task.audio_through[1][1]].constant
    /\ ~px.before[px.task.audio_through[1][2]].constant
    /\ px.frames = MaxFrames
    /\ px.task.automation_out_buffer = <<"event">>
    /\ px.task.note_out_buffers = <<(<<"event">>)>>

\* Bit i of mask is 1.
BitSet(mask, i) == (mask \div Shl(i)) % 2 = 1

\* C23: after sync_constant_mask_to_buffers the buffer of channel i is
\* flagged constant exactly if bit i of the mask is 1; after
\* sync_constant_mask_from_buffers bit i is 1 exactly if the buffer of
\* channel i is flagged; a mask synced to the buffers and back is the same
\* mask.
C23_MaskBitsMatchChannels ==
    /\ px.op = "sync_constant_mask_to_buffers" =>
            \A c \in 1..Len(px.flags) :
                px.flags[c] <=> BitSet(px.constant_mask, c - 1)
    /\ px.op = "sync_constant_mask_from_buffers" =>
            /\ \A c \in 1..Len(px.flags) :
                    BitSet(px.constant_mask, c - 1) <=> px.flags[c]
            /\ px.synced => px.constant_mask = px.mask_before

\* C24: an UpdateTempoMap request on an active engine leaves the tempo-map
\* cell holding a version one greater than before, no other step of an
\* active engine lowers the version, and an UpdateTempoMap request on a
\* deactivated engine leaves the cell as it was.
C24_TempoMapVersionBumps ==
    [][/\ (eng'.op = "UpdateTempoMap" /\ eng.audio_graph.some) =>
            /\ eng'.tempo_map_shared.some
            /\ eng'.tempo_map_shared.version
                    = eng.tempo_map_shared.version + 1
       /\ (eng.audio_graph.some /\ eng'.audio_graph.some) =>
            eng'.tempo_map_shared.version >= eng.tempo_map_shared.version
       /\ (eng'.op = "UpdateTempoMap" /\ ~eng.audio_graph.some) =>
            eng'.tempo_map_shared = eng.tempo_map_shared]_vars

\* C25: push leaves the queue one event longer, the earlier events as they
\* were and in their order, the pushed event last, and has warned exactly
\* if the queue held at least as many events as its capacity; after clear
\* the queue holds no event.
C25_PushAlwaysAppends ==
    /\ px.op = "push" =>
            /\ Len(px.q.events) = Len(px.before.events) + 1
            /\ SubSeq(px.q.events, 1, Len(px.before.events))
                    = px.before.events
            /\ px.q.events[Len(px.q.events)].kind = px.event.kind
            /\ px.q.events[Len(px.q.events)].id = px.event.id
            /\ px.warned <=> Len(px.before.events) >= px.before.capacity
    /\ px.op = "clear" => Len(px.q.events) = 0

\* An event pushed into a queue that was full at the capacity it was built
\* with, after other events.
C25_Witness ==
    /\ px.op = "push"
    /\ px.warned
    /\ px.before.capacity = MaxCapacity
    /\ Len(px.before.events) = MaxCapacity
    /\ px.q.type = "AllocatedEvent"

-----------------------------------------------------------------------------
\* C26: an idle tick that finds the audio-thread sibling dropped re-activates
\* the plugin only if a RESTART request was fetched since the plugin's last
\* activation or a PROCESS request is pending in that tick; otherwise the
\* tick returns PluginDeactivated and leaves the plugin Inactive, and a later
\* tick without requests keeps it Inactive.
C26_ReactivatesOnlyOnRequest ==
    [][(ev'.op = "on_idle" /\ main_thread /\ ~remove_requested
            /\ ~restart_seen /\ host_request \cap {"RESTART", "PROCESS"} = {})
        => /\ ev'.deact # "no"
                => (ev'.result = "PluginDeactivated" /\ state' = "Inactive")
           /\ state = "Inactive" => state' = "Inactive"]_vars

-----------------------------------------------------------------------------
\* C27: right after construction a host built by new without a main-thread
\* plugin (the plugin failed to load) is InactiveWithError, while the graph-in
\* host, the graph-out host and a successfully loaded plugin are Inactive.
C27_FailedLoadStartsWithError ==
    ev.op \in Constructors
        => state = IF ev.op = "new" /\ ~main_thread
                   THEN "InactiveWithError"
                   ELSE "Inactive"

-----------------------------------------------------------------------------
\* C28: whenever the plugin is WaitingToDrop the main-thread host holds no
\* handle to the audio-thread sibling (audio_thread is None), whichever
\* operation entered WaitingToDrop.
C28_WaitingToDropHoldsNoSibling ==
    state = "WaitingToDrop" => audio_thread = 0

-----------------------------------------------------------------------------
\* C29: at most one audio-thread sibling of the host is alive at any time,
\* and activate succeeds only from Inactive or InactiveWithError: it is
\* rejected while the state is Active, WaitingToDrop or
\* DroppedAndReadyToDeactivate.
C29_AtMostOneSibling ==
    /\ Cardinality({s \in SibIds : sibs[s].alive}) <= 1
    /\ (ev.op = "activate" /\ ev.result = "Ok")
        => ev.writes[1] \in {"Inactive", "InactiveWithError"}

-----------------------------------------------------------------------------
\* The types of the events of a request, after an EngineDeactivated when the
\* engine entered the request deactivated with an activation behind it.
EmittedSince(e, events) ==
    (IF ~e.audio_graph.some /\ e.threads # <<>>
     THEN <<"EngineDeactivated">> ELSE <<>>)
        \o [i \in 1..Len(events) |-> events[i].type]

\* C30: after an EngineDeactivated event (graceful or EngineCrashed) the
\* engine emits no AudioGraphModified and no NewSaveState event until after
\* the next EngineActivated event, also when the compile of a ModifyGraph or
\* RestoreFromSaveState request fails.
C30_QuietWhileDeactivated ==
    [][LET kinds == EmittedSince(eng, eng'.events)
       IN  \A i, j \in 1..Len(kinds) :
                (/\ i < j
                 /\ kinds[i] = "EngineDeactivated"
                 /\ kinds[j] \in {"AudioGraphModified", "NewSaveState"})
                => \E k \in (i + 1)..(j - 1) : kinds[k] = "EngineActivated"]_vars

-----------------------------------------------------------------------------
\* C31: the block the callback copies to the device in a cycle is the block
\* the process thread rendered for that cycle's request, never a block left
\* over from an earlier cycle, under every interleaving of the callback and
\* the process thread.
C31_DeliversOwnCycleBlock ==
    cb.result = "read" => ~cb.delivered_old

-----------------------------------------------------------------------------
\* C37: is_silent(frames) is true exactly when every sample in [0, frames)
\* of every channel is zero (a channel flagged constant holds its first
\* sample throughout); a channel that is not constant, starts with a zero
\* and has a later non-zero sample is not silent.
C37_SilentIffAllSamplesZero ==
    px.op = "is_silent"
        => px.result =
            (\A c \in 1..Len(px.channels) :
                \A k \in 1..px.frames : px.channels[c].data[k] = 0)

-----------------------------------------------------------------------------
\* The calls of a block that start or run the plugin.
StartsOrRuns(calls) ==
    \E i \in 1..Len(calls) :
        calls[i] \in {"start_processing_ok", "start_processing_err", "process"}

\* A block of an Errored sibling without a wake request: nothing of the
\* plugin is called, the outputs are cleared, the input events reach no
\* call and in_events is empty, and the sibling stays Errored.
ErroredBlockIsIdle ==
    /\ ~StartsOrRuns(px.calls)
    /\ px.out = "cleared"
    /\ px.handed = "none"
    /\ px.in_events = <<>>
    /\ px.processing_state = "Errored"

\* A block that retries start_processing and goes on from its result.
RetriesStart ==
    /\ px.calls # <<>>
    /\ px.calls[1] \in {"start_processing_ok", "start_processing_err"}
    /\ px.calls[1] = "start_processing_err"
            => px.processing_state = "Errored"
    /\ ~px.start_processing

\* C32 as stated: once Errored, a block without a wake request calls neither
\* process nor start_processing, clears the outputs and discards the input
\* events; a block with a wake request retries start_processing.
C32_ErroredUntilWoken_Original ==
    (px.op = "process" /\ px.before = "Errored")
        => IF px.woken THEN RetriesStart ELSE ErroredBlockIsIdle

\* C32: the same, where a wake request is only looked at while the plugin
\* is not WaitingToDrop: a block of a WaitingToDrop plugin is idle and keeps
\* the request.
C32_ErroredUntilWoken ==
    (px.op = "process" /\ px.before = "Errored")
        => IF px.woken /\ px.state_before # "WaitingToDrop"
           THEN RetriesStart
           ELSE ErroredBlockIsIdle /\ px.start_processing = px.woken

C32_Witness ==
    /\ px.op = "process"
    /\ px.before = "Errored"
    /\ px.woken
    /\ px.state_before = "Active"
    /\ px.calls = <<"start_processing_ok", "process">>

-----------------------------------------------------------------------------
\* The plugin's param_flush was called in the block.
Flushed == \E i \in 1..Len(px.calls) : px.calls[i] = "param_flush"

\* A block that leaves a sleeping plugin asleep: the plugin is neither
\* started nor run, the outputs are cleared, param_flush is called exactly
\* when the block carries a parameter input event, in_events is empty and
\* the sibling stays Stopped.
StaysAsleep ==
    /\ ~StartsOrRuns(px.calls)
    /\ px.out = "cleared"
    /\ Flushed <=> px.param
    /\ px.in_events = <<>>
    /\ px.processing_state = "Stopped"

\* C33 as stated: while Stopped, a block with neither a wake request nor a
\* note input event leaves the plugin asleep, flushing parameter events; a
\* block with a note input event or a wake request starts the plugin and
\* processes the block.
C33_StoppedUntilNoteOrWake_Original ==
    (px.op = "process" /\ px.before = "Stopped")
        => IF ~px.woken /\ ~px.note
           THEN StaysAsleep
           ELSE /\ Len(px.calls) >= 2
                /\ px.calls[1] = "start_processing_ok"
                /\ px.calls[2] = "process"

\* C33: the same for a plugin that is not WaitingToDrop, where a block with
\* a note input event or a wake request calls start_processing and
\* processes the block if that succeeds, and otherwise leaves the sibling
\* Errored with the outputs cleared and the parameter events flushed; a
\* block of a WaitingToDrop plugin calls nothing and clears the outputs.
C33_StoppedUntilNoteOrWake ==
    (px.op = "process" /\ px.before = "Stopped")
        => IF px.state_before = "WaitingToDrop"
           THEN /\ px.calls = <<>>
                /\ px.out = "cleared"
                /\ px.in_events = <<>>
                /\ px.processing_state = "Stopped"
           ELSE IF ~px.woken /\ ~px.note
           THEN StaysAsleep
           ELSE /\ px.calls # <<>>
                /\ IF px.start_ok
                   THEN /\ Len(px.calls) >= 2
                        /\ px.calls[1] = "start_processing_ok"
                        /\ px.calls[2] = "process"
                        /\ px.handed = "process"
                        /\ px.state = "Active"
                   ELSE /\ px.calls[1] = "start_processing_err"
                        /\ px.processing_state = "Errored"
                        /\ px.out = "cleared"
                        /\ Flushed <=> px.param
                /\ px.in_events = <<>>

C33_Witness ==
    /\ px.op = "process"
    /\ px.before = "Stopped"
    /\ px.state_before = "Active"
    /\ ~px.woken
    /\ ~px.note
    /\ px.param
    /\ px.calls = <<"param_flush">>
    /\ px.processing_state = "Stopped"

-----------------------------------------------------------------------------
\* How often the block called op on the plugin.
CallsOf(op) == Cardinality({i \in 1..Len(px.calls) : px.calls[i] = op})

\* Every sample of the block's audio input is zero.
InputSilent ==
    \A c \in 1..Len(px.channels) :
        \A k \in 1..px.frames : px.channels[c].data[k] = 0

-----------------------------------------------------------------------------
\* C35: every parameter-value event the plugin emits in a block, from its
\* process or from its param_flush, leaves an entry with a value for that
\* parameter in the Audio->UI queue, which the next on_idle reports; and a
\* block that accepted a gesture event leaves an entry with a gesture.
C35_OutputEventsReachQueue ==
    gs.via \in {"process", "param_flush"}
        => /\ \A p \in gs.emitted :
                gs.to_main_q[p].pending /\ gs.to_main_q[p].value
           /\ gs.accepted > 0
                => \E p \in GestureParamIds :
                        /\ gs.to_main_q[p].pending
                        /\ gs.to_main_q[p].gesture # "none"

----------------------------------------------------------------------------
\* The results with which activate refuses to run.
Refusals == {"NotLoaded", "AlreadyActive"}

\* A call of activate that returned without touching the host or the plugin:
\* no plugin method called, no field of the host assigned, the PluginState,
\* the parameter queues, the audio-thread handle and the siblings as before.
RefusedUntouched ==
    /\ ev'.asked = <<>>
    /\ ev'.stored = {}
    /\ ev'.writes = <<state>>
    /\ ev'.calls = <<>>
    /\ ev'.deact = "no"
    /\ state' = state
    /\ param_queues' = param_queues
    /\ audio_thread' = audio_thread
    /\ sibs' = sibs
    /\ pq' = pq
    /\ gs' = gs

\* C36: activate on a host with no main-thread plugin returns NotLoaded and
\* on a host whose state is Active returns AlreadyActive; in both cases no
\* plugin method is called and the PluginState, the cached port layouts, the
\* save state, the parameter queues and the audio-thread handle are left
\* unchanged.
C36_RefusedActivateChangesNothing ==
    [][ev'.op = "activate"
        => /\ ~main_thread => ev'.result = "NotLoaded"
           /\ main_thread /\ state = "Active" => ev'.result = "AlreadyActive"
           /\ ev'.result \in Refusals => RefusedUntouched]_vars

\* activate was called on an active host holding a sibling and refused.
C36_Witness ==
    /\ ev.op = "activate"
    /\ ev.result = "AlreadyActive"
    /\ state = "Active"
    /\ audio_thread # 0
    /\ sibs[audio_thread].alive

----------------------------------------------------------------------------
\* The UI's last call is one the plugin's parameter table rules out:
\* set_value for a parameter the plugin does not have or that is read-only,
\* set_mod_amount for a parameter the plugin does not have.  A plugin with no
\* parameters has none of the ids.
RuledOut(x) ==
    \/ x.last.op = "set_value" /\ x.params[x.last.param_id] # "writable"
    \/ x.last.op = "set_mod_amount" /\ x.params[x.last.param_id] = "absent"

\* An event the plugin's parameter table allows the UI to send.
Sendable(x, e) ==
    \/ e.type = "ParamValue" /\ x.params[e.param_id] = "writable"
    \/ e.type = "ParamMod" /\ x.params[e.param_id] # "absent"

\* C38: set_value for a parameter id the plugin does not have, for a parameter
\* flagged read-only, or on a plugin with no parameters enqueues nothing and
\* leaves the UI->Audio queues unchanged, so no event for it reaches the
\* plugin; set_mod_amount is ignored in the same way for an unknown id or a
\* plugin with no parameters.
C38_RuledOutSetsAreIgnored ==
    [][/\ RuledOut(pq') => /\ pq'.value_q = pq.value_q
                           /\ pq'.mod_q = pq.mod_q
                           /\ pq'.in_events = pq.in_events
       /\ \A i \in 1..Len(pq'.delivered) : Sendable(pq', pq'.delivered[i])]_vars

\* set_value was called for a read-only parameter of a plugin that has
\* parameter queues, while a value for a writable parameter was pending.
C38_Witness ==
    /\ pq.last.op = "set_value"
    /\ pq.params[pq.last.param_id] = "readonly"
    /\ \E p \in ParamIds : pq.params[p] = "writable" /\ pq.value_q[p] # NoValue
    /\ pq.value_q[pq.last.param_id] = NoValue

====
